---- MODULE Spec2Model ----
(***************************************************************************)
(* A model of mcplay (src/play.py): the playlist navigator, the player     *)
(* session and its child process, the timer queue, the status line, the    *)
(* remote control FIFO and the main loop.                                  *)
(*                                                                         *)
(* Every handler of the program is an operator from a world record (one    *)
(* field per object of the program) to the world it leaves behind; the     *)
(* actions apply the handlers to the variables.  Time is counted in        *)
(* tenths of a second, positions in 1/500 s (so that 0.2% of a whole       *)
(* number of seconds is a whole number).                                   *)
(***************************************************************************)
EXTENDS Integers, Sequences, FiniteSets, TLC

VARIABLES
    win_playlist,   \* PlaylistWindow: buffer, bufptr, repeat, random, stop, random_*
    entries,        \* the PlaylistEntry objects: how many exist, tagged, active, playable
    player,         \* app.player, the one Player of PLAYERS
    child,          \* the operating system's view of the player's child processes
    timeout,        \* app.timeout, the Timeout registry
    win_status,     \* StatusWindow: current_message, default_message, tid
    app,            \* Application: play_tid, kludge, and whether run() is still looping
    env,            \* the environment: the clock, what is installed, what may be added
    last,           \* observation: the operation performed last, its arguments and result
    run,            \* observation: the results of the consecutive advance-forward calls
    seen            \* observation: what the handlers of the main loop did

vars ==
    <<win_playlist, entries, player, child, timeout, win_status, app, env, last, run, seen>>

\* ------------------------------------------------------------------ bounds
\* PlaylistEntry objects ever created, and scheduler ids ever issued, in the
\* specifications of the playlist window
MaxTracks == 3
MaxTid == 2
PlaylistTracks == 3
PlaylistTids == 2
\* in the specifications of the main loop: the clock's last tick (tenths of a
\* second), scheduler ids ever issued, keys typed
SeekTime == 30
SeekTids == 5
SeekKeys == 3
PollTime == 30
PollTids == 3
PollExits == 4
RemoteTime == 12
RemoteTids == 3
RemoteKeys == 2
SchedTime == 20
JumpTime == 12
JumpTids == 4
JumpKeys == 3
LostTime == 30
LostTids == 4
LostKeys == 1
SchedTids == 3

\* ------------------------------------------------------------------ constants
None == 0
STATUS_SHORT == 10
STATUS_LONG == 20
DEBOUNCE == 5
PROGRESS_PERIOD == 10
GRACE == 20
WAKE == 2
POLL_INTERVAL == 5
UNIT == 500

\* ------------------------------------------------------------------ lists
Last(s) == s[Len(s)]

Front_kept(s) == s

\* list[:-1], what is left of a list after pop()
Front(s) == SubSeq(s, 1, Len(s) - 1)

Elems(s) == {s[i] : i \in 1..Len(s)}

IndexOf(s, x) ==
    IF x \in Elems(s)
    THEN CHOOSE i \in 1..Len(s) : s[i] = x /\ \A j \in 1..(i - 1) : s[j] # x
    ELSE 0

RemoveAt(s, i) == SubSeq(s, 1, i - 1) \o SubSeq(s, i + 1, Len(s))

list_remove_kept(s, x) == s

\* list.remove(x) inside try/except ValueError: the first occurrence, if any
list_remove(s, x) == IF IndexOf(s, x) = 0 THEN s ELSE RemoveAt(s, IndexOf(s, x))

NoDup(s) == \A i, j \in 1..Len(s) : s[i] = s[j] => i = j

Perms(s) ==
    {p \in [1..Len(s) -> Elems(s)] : \A x \in Elems(s) :
        Cardinality({i \in 1..Len(s) : p[i] = x}) = Cardinality({i \in 1..Len(s) : s[i] = x})}

\* ------------------------------------------------------------------ the world
World ==
    [pl |-> win_playlist, en |-> entries, player |-> player, child |-> child,
     timeout |-> timeout, st |-> win_status, app |-> app, env |-> env, seen |-> seen]

Raised(w) == w.app.exc # ""

Raise(w, name) == [w EXCEPT !.app.exc = name]

Text(s) == [k |-> s, e |-> None]

\* a transient message; of its text only "Player not found!" is told apart
Info == Text("...")

\* ------------------------------------------------------------------ Timeout
Timeout_add_lowest_free(w, delay, func, entry, offset) ==
    LET tid == IF DOMAIN w.timeout.dict = {} THEN 1 ELSE w.timeout.next + 1
    IN  [w EXCEPT !.timeout.next = tid,
                  !.timeout.dict = (tid :> [func |-> func, entry |-> entry, offset |-> offset,
                                            at |-> w.env.now + delay]) @@ @]

\* tid = self.next = self.next + 1; self.dict[tid] = (func, args, time.time() + timeout)
Timeout_add(w, delay, func, entry, offset) ==
    LET tid == w.timeout.next + 1
    IN  [w EXCEPT !.timeout.next = tid,
                  !.timeout.dict = (tid :> [func |-> func, entry |-> entry, offset |-> offset,
                                            at |-> w.env.now + delay]) @@ @]

\* del self.dict[tid] raises KeyError when tid is not registered
Timeout_remove(w, tid) ==
    IF tid \in DOMAIN w.timeout.dict
    THEN [w EXCEPT !.timeout.dict = [t \in (DOMAIN @) \ {tid} |-> @[t]]]
    ELSE Raise(w, "KeyError")

\* ------------------------------------------------------------------ StatusWindow
\* if duration: self.tid = app.timeout.add(duration, self.timeout) else: None
status_tid(w, duration) ==
    IF Raised(w) THEN w
    ELSE IF duration # 0
    THEN [Timeout_add(w, duration, "status_timeout", None, 0)
             EXCEPT !.st.tid = w.timeout.next + 1]
    ELSE [w EXCEPT !.st.tid = None]

status(w, message, duration) ==
    IF Raised(w) THEN w
    ELSE status_tid(IF w.st.tid # None
                    THEN Timeout_remove([w EXCEPT !.st.current_message = message], w.st.tid)
                    ELSE [w EXCEPT !.st.current_message = message],
                    duration)

\* self.default_message = message
default_message(w, message) ==
    IF Raised(w) THEN w ELSE [w EXCEPT !.st.default_message = message]

set_default_status(w, message) ==
    IF Raised(w) THEN w
    ELSE default_message(IF w.st.current_message = w.st.default_message
                         THEN status(w, message, 0) ELSE w,
                         message)

restore_default_status(w) == status(w, w.st.default_message, 0)

status_timeout(w) == restore_default_status([w EXCEPT !.st.tid = None])

\* ------------------------------------------------------------------ Player
NoTime == -1

\* observation: a process is spawned for the session, its step starting at 0
NoteSpawn(w) ==
    IF "log" \in w.env.observe THEN [w EXCEPT !.seen.log = <<>>] ELSE w

\* observation: the session is set up, no poll has re-spawned it yet
NoteSetup(w) ==
    IF "poll" \in w.env.observe THEN [w EXCEPT !.seen.respawns = 0] ELSE w

update_status(w) ==
    IF Raised(w) THEN w
    ELSE set_default_status(w,
            IF w.player.entry = None THEN Text("")
            ELSE IF w.player.stopped THEN [k |-> "Stopped", e |-> w.player.entry]
            ELSE IF w.player.paused THEN [k |-> "Paused", e |-> w.player.entry]
            ELSE [k |-> "Playing", e |-> w.player.entry])

\* which(argv[0]): the path of the executable, or None
which(w) == w.env.installed

\* self.re_files.search(entry.pathname)
re_files_search(w, entry) == entry \in w.en.song

\* returns self.argv[0]; the world it leaves is Player_setup(w, entry, offset)
Player_setup(w, entry, offset) ==
    LET w1 == [w EXCEPT !.player.entry = entry,
                        !.player.offset = offset,
                        !.player.attrs = @ \cup {"offset"}]
        w2 == IF offset = 0
              THEN [w1 EXCEPT !.player.length = 0, !.player.attrs = @ \cup {"length"}]
              ELSE w1
    IN  NoteSetup([w2 EXCEPT !.player.time_setup = w.env.now])

\* os.fork(): a new child in its own process group; a child still alive is no
\* longer referenced by self.pid
fork(w) ==
    [w EXCEPT !.child.orphans = IF w.child.st \in {"run", "susp"} THEN @ + 1 ELSE @,
              !.child.st = "run",
              !.child.forks = @ + 1,
              !.player.attrs = @ \cup {"pid"}]

Player_play(w) ==
    IF Raised(w) THEN w
    ELSE update_status(NoteSpawn([fork(w) EXCEPT !.player.stopped = FALSE,
                                                 !.player.paused = FALSE,
                                                 !.player.step = 0,
                                                 !.player.attrs = @ \cup {"pid", "step"}]))

\* quiet or self.update_status()
unless_quiet(w, quiet) == IF quiet THEN w ELSE update_status(w)

Player_toggle_pause_blind(w, quiet) ==
    IF Raised(w) THEN w
    ELSE unless_quiet([w EXCEPT !.player.paused = ~@], quiet)

\* os.kill(-self.pid, [SIGSTOP, SIGCONT][self.paused]) raises os.error when the
\* process group is gone, and AttributeError when self.pid was never set
Player_toggle_pause(w, quiet) ==
    IF Raised(w) THEN w
    ELSE IF "pid" \notin w.player.attrs THEN Raise(w, "AttributeError")
    ELSE IF w.child.st \notin {"run", "susp"} THEN w
    ELSE unless_quiet([w EXCEPT !.child.st = IF w.player.paused THEN "run" ELSE "susp",
                                !.player.paused = ~@],
                      quiet)

kill_and_reap_no_wait(w) == w

\* the loop of os.kill(-pid, SIGINT) and os.waitpid(pid, WNOHANG) ends when the
\* child is gone (or self.pid does not exist); a child that is suspended never
\* takes the interrupt
kill_and_reap(w) ==
    IF Raised(w) \/ "pid" \notin w.player.attrs THEN w
    ELSE IF w.child.st = "run" THEN [w EXCEPT !.child.st = "gone"]
    ELSE IF w.child.st = "susp" THEN Raise(w, "Hang")
    ELSE w

stopped_not_set(w) == w

\* self.stopped = 1
stopped(w) == IF Raised(w) THEN w ELSE [w EXCEPT !.player.stopped = TRUE]

Player_stop(w, quiet) ==
    IF Raised(w) THEN w
    ELSE unless_quiet(stopped(kill_and_reap(IF w.player.paused
                                            THEN Player_toggle_pause(w, quiet) ELSE w)),
                      quiet)

\* set_position(offset, length), both in seconds
set_position(w, offset, length) ==
    [w EXCEPT !.player.offset = offset * UNIT,
              !.player.length = length * UNIT,
              !.player.attrs = @ \cup {"offset", "length"}]

\* TimeOffsetPlayerMplayer.parse_buf: re_progress.search(self.buf)
parse_buf_reset(w) ==
    IF w.player.buf.m THEN set_position(w, w.player.buf.pos, w.player.buf.len)
    ELSE set_position(w, 0, 0)

parse_buf(w) ==
    IF w.player.buf.m THEN set_position(w, w.player.buf.pos, w.player.buf.len) ELSE w

Player_parse_progress(w) ==
    IF Raised(w) THEN w
    ELSE IF w.player.stopped \/ w.player.step # 0 THEN [w EXCEPT !.player.tid = None]
    ELSE [Timeout_add(parse_buf(w), PROGRESS_PERIOD, "parse_progress", None, 0)
             EXCEPT !.player.tid = w.timeout.next + 1]

read_fd_always_parses(w, chunk) ==
    IF Raised(w) THEN w
    ELSE Player_parse_progress([w EXCEPT !.player.buf = chunk])

\* self.buf = os.read(fd, 512); self.tid or self.parse_progress()
read_fd(w, chunk) ==
    IF Raised(w) THEN w
    ELSE IF w.player.tid # None THEN [w EXCEPT !.player.buf = chunk]
    ELSE Player_parse_progress([w EXCEPT !.player.buf = chunk])

\* observation: what poll found, when, and what it did about it
NotePoll(w, w0, found, respawned, ret) ==
    IF "poll" \notin w.env.observe THEN w
    ELSE [w EXCEPT !.seen.poll = [found |-> found, at |-> w0.env.now,
                                  setup |-> w0.player.time_setup,
                                  before |-> w0.seen.respawns,
                                  respawned |-> respawned, ret |-> ret,
                                  seq |-> 1 - w0.seen.poll.seq],
                   !.seen.respawns = IF respawned THEN @ + 1 ELSE @]

try_again_unset(w) == (w.env.now - w.player.time_setup) < GRACE

\* self.time_setup and (time.time() - self.time_setup) < 2.0
try_again(w) ==
    w.player.time_setup # NoTime /\ (w.env.now - w.player.time_setup) < GRACE

\* os.waitpid(self.pid, os.WNOHANG) raises when self.pid does not exist or names
\* no child any more (SIGCHLD is ignored, so a child that exits is reaped at once)
waitpid_raises(w) == "pid" \notin w.player.attrs \/ w.child.st \notin {"run", "susp"}

\* [w |-> the world poll leaves, ret |-> whether what it returns is true]
poll(w) ==
    IF Raised(w) THEN [w |-> w, ret |-> FALSE]
    ELSE IF ~waitpid_raises(w) THEN [w |-> NotePoll(w, w, "alive", FALSE, FALSE), ret |-> FALSE]
    ELSE IF try_again(w)
    THEN [w |-> NotePoll(Player_play(w), w, "gone", TRUE, FALSE), ret |-> FALSE]
    ELSE [w |-> NotePoll(set_default_status(w, Text("")), w, "gone", FALSE, TRUE),
          ret |-> TRUE]

\* observation: the relative or absolute seek the session has just taken
NoteStep(w, dir, relative) ==
    IF "log" \in w.env.observe /\ Len(w.seen.log) < 4
    THEN [w EXCEPT !.seen.log = Append(@, [dir |-> dir, relative |-> relative,
                                           length |-> w.player.length,
                                           offset |-> w.player.offset])]
    ELSE w

keep_step_always(step, d) == step

\* self.step * (self.step * d > 0)
keep_step(step, d) == IF step * d > 0 THEN step ELSE 0

clamp_no_floor(sum, length) == IF sum < length THEN sum ELSE length

\* min(self.length, max(0, sum))
clamp(sum, length) ==
    IF sum < 0 THEN IF 0 < length THEN 0 ELSE length
    ELSE IF sum < length THEN sum ELSE length

\* Player.seek(offset, relative); d = offset * self.length * 0.002
Player_seek(w, offset, relative) ==
    IF Raised(w) THEN w
    ELSE IF relative
    THEN IF {"length", "step", "offset"} \subseteq w.player.attrs
         THEN LET d == offset * (w.player.length \div UNIT)
                  step == keep_step(w.player.step, d) + d
              IN  NoteStep([w EXCEPT !.player.step = step,
                                     !.player.offset = clamp(@ + step, w.player.length)],
                           offset, TRUE)
         ELSE Raise(w, "AttributeError")
    ELSE IF offset < 0 /\ "length" \notin w.player.attrs THEN Raise(w, "AttributeError")
    ELSE NoteStep([w EXCEPT !.player.step = UNIT,
                            !.player.offset = IF offset < 0 /\ w.player.length + offset * UNIT # 0
                                              THEN w.player.length + offset * UNIT
                                              ELSE offset * UNIT,
                            !.player.attrs = @ \cup {"step", "offset"}],
                  offset, FALSE)

\* ------------------------------------------------------------------ Application.play
\* self.player.stopped = 0  # keep going
keep_going(w) == IF Raised(w) THEN w ELSE [w EXCEPT !.player.stopped = FALSE]

\* the for loop over PLAYERS, its else clause, and self.player.play()
play_stopped(w, entry, offset) ==
    IF Raised(w) THEN w
    ELSE IF ~re_files_search(w, entry)
    THEN keep_going(status(w, Text("Player not found!"), STATUS_SHORT))
    ELSE IF which(w) THEN Player_play(Player_setup(w, entry, offset))
    ELSE keep_going(status(Player_setup(w, entry, offset), Text("Player not found!"),
                           STATUS_SHORT))

Application_play(w, entry, offset) ==
    IF Raised(w) THEN w
    ELSE IF entry = None THEN [w EXCEPT !.app.kludge = FALSE, !.app.play_tid = None]
    ELSE play_stopped(Player_stop([w EXCEPT !.app.kludge = FALSE, !.app.play_tid = None],
                                  TRUE),
                      entry, offset)

\* ------------------------------------------------------------------ ListWindow
\* ListWindow.update: self.bufptr = max(0, min(self.bufptr, len(self.buffer) - 1))
update(w) ==
    IF Raised(w) THEN w
    ELSE
    LET n == Len(w.pl.buffer)
        m == IF w.pl.bufptr < n - 1 THEN w.pl.bufptr ELSE n - 1
    IN  [w EXCEPT !.pl.bufptr = IF m > 0 THEN m ELSE 0]

\* ListWindow.current: the entry under the cursor (the cursor is pulled back into the list)
current(w) ==
    IF Len(w.pl.buffer) = 0 THEN None
    ELSE IF w.pl.bufptr >= Len(w.pl.buffer) THEN w.pl.buffer[Len(w.pl.buffer)]
    ELSE w.pl.buffer[w.pl.bufptr + 1]

current_ptr(w) ==
    IF Len(w.pl.buffer) # 0 /\ w.pl.bufptr >= Len(w.pl.buffer)
    THEN [w EXCEPT !.pl.bufptr = Len(w.pl.buffer) - 1]
    ELSE w

cursor_move(w, ydiff) ==
    IF w.pl.buffer = <<>> THEN w
    ELSE update([w EXCEPT !.pl.bufptr = (@ + ydiff) % Len(w.pl.buffer)])

\* ------------------------------------------------------------------ TagListWindow
is_tagged(w, e) == e \in w.en.tagged

set_tagged(w, e, value) ==
    [w EXCEPT !.en.tagged = IF value THEN @ \cup {e} ELSE @ \ {e}]

get_tagged(w) == SelectSeq(w.pl.buffer, LAMBDA e : is_tagged(w, e))

not_tagged(w, l) == SelectSeq(l, LAMBDA e : ~is_tagged(w, e))

command_tag_untag(w) ==
    IF w.pl.buffer = <<>> THEN w
    ELSE LET tmp == w.pl.buffer[w.pl.bufptr + 1]
         IN  cursor_move(set_tagged(w, tmp, ~is_tagged(w, tmp)), 1)

command_invert_tags(w) ==
    update([w EXCEPT !.en.tagged = (Elems(w.pl.buffer) \ @) \cup (@ \ Elems(w.pl.buffer))])

\* ------------------------------------------------------------------ PlaylistEntry
is_active(w, e) == e \in w.en.active

set_active_only_sets(w, e, value) ==
    [w EXCEPT !.en.active = IF value THEN @ \cup {e} ELSE @]

set_active(w, e, value) ==
    [w EXCEPT !.en.active = IF value THEN @ \cup {e} ELSE @ \ {e}]

\* ------------------------------------------------------------------ PlaylistWindow
get_active_entry(w) ==
    LET at == {i \in 1..Len(w.pl.buffer) : is_active(w, w.pl.buffer[i])}
    IN  IF at = {} THEN None
        ELSE w.pl.buffer[CHOOSE i \in at : \A j \in at : i <= j]

append_buffer_only(w, song) ==
    LET item == w.en.created + 1
    IN  [w EXCEPT !.en.created = item,
                  !.en.song = IF song THEN @ \cup {item} ELSE @,
                  !.pl.buffer = Append(@, item)]

\* PlaylistWindow.append(PlaylistEntry(pathname)): a new entry object
append(w, song) ==
    LET item == w.en.created + 1
        w1 == [w EXCEPT !.en.created = item,
                        !.en.song = IF song THEN @ \cup {item} ELSE @,
                        !.pl.buffer = Append(@, item)]
    IN  IF w.pl.random THEN [w1 EXCEPT !.pl.random_left = Append(@, item)] ELSE w1

\* PlaylistWindow.add(pathname) for a pathname that is neither a directory nor a playlist
add(w, song) == update(append(w, song))

\* the list random.choice draws from, when change_active_entry(1) draws at all
choice_list(w) ==
    IF w.pl.buffer = <<>> \/ ~w.pl.random \/ w.pl.random_next # <<>> THEN <<>>
    ELSE IF w.pl.random_left # <<>> THEN w.pl.random_left
    ELSE IF w.pl.repeat THEN w.pl.buffer
    ELSE <<>>

index_allowed_no_floor(index, n, repeat) == index < n \/ repeat

\* 0 <= index < len(self.buffer) or self.repeat
index_allowed(index, n, repeat) == (0 <= index /\ index < n) \/ repeat

\* change_active_entry(direction), random.choice returning `choice`:
\* [w |-> the world it leaves, ret |-> the entry it returns or None]
change_active_entry(w, direction, choice) ==
    LET pl == w.pl
        old == get_active_entry(w)
        quit == [w |-> w, ret |-> None]
        done(w1, new) ==
            [w |-> update(set_active(w1, new, TRUE)), ret |-> new]
        clear(w1) == IF old # None THEN set_active(w1, old, FALSE) ELSE w1
    IN
    IF pl.buffer = <<>> THEN quit
    ELSE IF pl.random THEN
        IF direction > 0 THEN
            IF pl.random_next = <<>> /\ pl.random_left = <<>> /\ ~pl.repeat THEN quit
            ELSE
            LET popped == pl.random_next # <<>>
                left0 == IF ~popped /\ pl.random_left = <<>> THEN pl.buffer
                         ELSE pl.random_left
                new == IF popped THEN Last(pl.random_next) ELSE choice
                w1 == [w EXCEPT
                        !.pl.random_next = IF popped THEN Front(@) ELSE @,
                        !.pl.random_left = IF popped THEN left0 ELSE list_remove(left0, new),
                        !.pl.random_prev = Append(list_remove(@, new), new)]
            IN  done(clear(w1), new)
        ELSE
            IF Len(pl.random_prev) > 1
            THEN LET w1 == [w EXCEPT
                             !.pl.random_next = Append(@, Last(pl.random_prev)),
                             !.pl.random_prev = Front(@)]
                 IN  done(clear(w1), Last(w1.pl.random_prev))
            ELSE quit
    ELSE IF old # None THEN
        LET index == (IndexOf(pl.buffer, old) - 1) + direction
        IN  IF ~index_allowed(index, Len(pl.buffer), pl.repeat) THEN quit
            ELSE done(clear(w), pl.buffer[(index % Len(pl.buffer)) + 1])
    ELSE done(w, pl.buffer[1])

command_play(w) ==
    IF w.pl.buffer = <<>> THEN w
    ELSE
    LET old == get_active_entry(w)
        w1 == IF old # None THEN set_active(w, old, FALSE) ELSE w
        w2 == current_ptr(w1)
        entry == current(w2)
    IN  Application_play(update(set_active(w2, entry, TRUE)), entry, 0)

filter_pools_skipped(w) == w

\* if self.random: each pool becomes self.not_tagged(pool)
filter_pools(w) ==
    IF w.pl.random
    THEN [w EXCEPT !.pl.random_prev = not_tagged(w, @),
                   !.pl.random_next = not_tagged(w, @),
                   !.pl.random_left = not_tagged(w, @)]
    ELSE w

command_delete(w) ==
    IF w.pl.buffer = <<>> THEN w
    ELSE
    LET w0 == current_ptr(w)
        current_entry == current(w0)
        n == Len(w0.pl.buffer)
        kept == not_tagged(w0, w0.pl.buffer)
        w1 == IF n > Len(kept)
              THEN [w0 EXCEPT !.pl.buffer = kept,
                              !.pl.bufptr = IF current_entry \in Elems(kept)
                                            THEN IndexOf(kept, current_entry) - 1 ELSE @]
              ELSE [set_tagged(w0, current_entry, TRUE)
                       EXCEPT !.pl.buffer = RemoveAt(kept, w0.pl.bufptr + 1)]
    IN  update(filter_pools(w1))

command_delete_all(w) ==
    update(status([w EXCEPT !.pl.buffer = <<>>,
                            !.pl.random_prev = <<>>,
                            !.pl.random_next = <<>>,
                            !.pl.random_left = <<>>],
                  Info, STATUS_SHORT))

\* command_move(after): after = 1 for 'm', 0 for 'M'
command_move(w, after) ==
    IF w.pl.buffer = <<>> THEN w
    ELSE
    LET w0 == current_ptr(w)
        current_entry == current(w0)
        l == get_tagged(w0)
    IN  IF l = <<>> \/ is_tagged(w0, current_entry) THEN w0
        ELSE
        LET kept == not_tagged(w0, w0.pl.buffer)
            ptr == (IndexOf(kept, current_entry) - 1) + after
        IN  update([w0 EXCEPT !.pl.bufptr = ptr,
                              !.pl.buffer = SubSeq(kept, 1, ptr) \o l
                                            \o SubSeq(kept, ptr + 1, Len(kept))])

\* command_shuffle: the draws of random.randint produce the permutation `perm`
command_shuffle(w, perm) ==
    status(update([w EXCEPT !.pl.buffer = perm, !.pl.bufptr = 0]),
           Info, STATUS_SHORT)

\* the key command_sort sorts by: the entry's name under the current viewpoint
vp(e) == e

\* sorted(self.buffer, key=...): stable, ascending
sorted(s) ==
    CHOOSE p \in Perms(s) : \A i, j \in 1..Len(p) : i < j => vp(p[i]) <= vp(p[j])

command_sort(w) ==
    LET w1 == status(w, Info, 0)
        w2 == IF Raised(w1) THEN w1
              ELSE update([w1 EXCEPT !.pl.buffer = sorted(@), !.pl.bufptr = 0])
    IN  status(w2, Info, STATUS_SHORT)

\* PlaylistWindow.toggle(attr, format)
toggle(w, attr) ==
    LET w1 == [w EXCEPT !.pl[attr] = ~@]
    IN  status(w1, Info, STATUS_SHORT)

command_toggle_repeat(w) == toggle(w, "repeat")

command_toggle_random(w) ==
    LET w1 == toggle(w, "random")
    IN  IF Raised(w1) THEN w1
        ELSE [w1 EXCEPT !.pl.random_prev = <<>>,
                        !.pl.random_next = <<>>,
                        !.pl.random_left = w1.pl.buffer]

command_toggle_stop(w) == toggle(w, "stop")

\* ------------------------------------------------------------------ Application
\* self.play_tid = self.timeout.add(0.5, self.play, (entry, offset))
play_later(w, entry, offset) ==
    IF Raised(w) THEN w
    ELSE [Timeout_add(w, DEBOUNCE, "play", entry, offset)
             EXCEPT !.app.play_tid = w.timeout.next + 1]

delayed_play_if_playing(w, entry, offset) ==
    IF Raised(w) \/ w.player.stopped THEN w
    ELSE play_later(IF w.app.play_tid # None THEN Timeout_remove(w, w.app.play_tid) ELSE w,
                    entry, offset)

delayed_play(w, entry, offset) ==
    IF Raised(w) THEN w
    ELSE play_later(IF w.app.play_tid # None THEN Timeout_remove(w, w.app.play_tid) ELSE w,
                    entry, offset)

\* self.delayed_play(entry, 0), entry being what change_active_entry returned
play_returned_later(r) == delayed_play(r.w, r.ret, 0)

next_song(w, choice) == play_returned_later(change_active_entry(w, 1, choice))

prev_song(w) == play_returned_later(change_active_entry(w, -1, None))

\* observation: a seek request the session took; a request that comes within
\* the debounce window of the one before it continues its burst
NoteSeek(w) ==
    IF "seek" \notin w.env.observe \/ Raised(w) THEN w
    ELSE
    LET b == w.seen.burst
        goes_on == b.n > 0 /\ w.env.now < b.at + DEBOUNCE
    IN  [w EXCEPT !.seen.burst = [n |-> IF goes_on /\ b.n < 3 THEN b.n + 1
                                        ELSE IF goes_on THEN b.n ELSE 1,
                                  at |-> w.env.now,
                                  entry |-> w.player.entry,
                                  offset |-> w.player.offset],
                  !.seen.fired = IF goes_on THEN @ ELSE <<>>]

\* observation: what the session was doing when the seek request came
NoteSought(w) ==
    IF "sought" \notin w.env.observe \/ Raised(w) THEN w
    ELSE [w EXCEPT !.seen.sought = IF w.player.stopped THEN "stopped"
                                   ELSE IF w.player.paused THEN "paused"
                                   ELSE "playing"]

\* self.delayed_play(self.player.entry, self.player.offset)
play_sought_later(w) ==
    NoteSought(NoteSeek(delayed_play(w, w.player.entry, w.player.offset)))

Application_seek(w, offset, relative) ==
    IF Raised(w) \/ w.player.entry = None THEN w
    ELSE play_sought_later(Player_seek(w, offset, relative))

Application_toggle_pause(w) ==
    IF Raised(w) \/ w.player.entry = None THEN w
    ELSE IF ~w.player.stopped THEN Player_toggle_pause(w, FALSE)
    ELSE w

Application_toggle_stop_from_start(w) ==
    IF Raised(w) \/ w.player.entry = None THEN w
    ELSE IF ~w.player.stopped THEN Player_stop(w, FALSE)
    ELSE Application_play(w, w.player.entry, 0)

Application_toggle_stop(w) ==
    IF Raised(w) \/ w.player.entry = None THEN w
    ELSE IF ~w.player.stopped THEN Player_stop(w, FALSE)
    ELSE Application_play(w, w.player.entry, w.player.offset)

\* self._mixer(cmd, arg) either reports the volume for a second or fails, and
\* the failure is reported for two seconds
mixer(w) ==
    IF Raised(w) THEN w
    ELSE status(w, Info, IF w.env.mixer THEN STATUS_SHORT ELSE STATUS_LONG)

\* observation: quit() is called, for the key Q or by handler_quit
NoteQuit(w, by) ==
    IF "quit" \in w.env.observe THEN [w EXCEPT !.seen.quit = by] ELSE w

\* sys.exit(status) after a quiet stop
sys_exit(w) == IF Raised(w) THEN w ELSE Raise(w, "SystemExit")

Application_quit(w) == IF Raised(w) THEN w ELSE sys_exit(Player_stop(w, TRUE))

\* ------------------------------------------------------------------ Timeout.check
\* observation: a play callback of the scheduler ran for a track; or, for the
\* scheduler alone, a callback ran, with its id and whether the id was still
\* registered when it was called
NoteFired(w, t) ==
    IF "seek" \in w.env.observe /\ t.entry # None /\ Len(w.seen.fired) < 2
    THEN [w EXCEPT !.seen.fired = Append(@, [entry |-> t.entry, offset |-> t.offset])]
    ELSE IF "tick" \in w.env.observe
    THEN [w EXCEPT !.seen.fired = Append(@, [tid |-> t.tid, at |-> t.at,
                                             registered |-> t.tid \in DOMAIN w.timeout.dict])]
    ELSE w

\* func(*args) of a registered callback
fire(w, t) ==
    IF Raised(w) THEN w
    ELSE IF t.func = "play" THEN Application_play(NoteFired(w, t), t.entry, t.offset)
    ELSE IF t.func = "status_timeout" THEN status_timeout(NoteFired(w, t))
    ELSE Player_parse_progress(NoteFired(w, t))

\* Timeout.check(now): the entries of list(self.dict.items()), in the order of
\* their ids; what it returns is Timeout_wake of the world it leaves
\* one turn of the for loop of check: self.remove(tid); func(*args)
check_entry_no_remove(w, snap, tid) ==
    IF Raised(w) \/ tid \notin DOMAIN snap THEN w
    ELSE IF w.env.now >= snap[tid].at THEN fire(w, snap[tid] @@ [tid |-> tid])
    ELSE w

check_entry(w, snap, tid) ==
    IF Raised(w) \/ tid \notin DOMAIN snap THEN w
    ELSE IF w.env.now >= snap[tid].at
    THEN fire(Timeout_remove(w, tid), snap[tid] @@ [tid |-> tid])
    ELSE w

\* observation: when check ran last
NoteChecked(w) ==
    IF "seek" \in w.env.observe THEN [w EXCEPT !.seen.checked = w.env.now] ELSE w

check(w) ==
    LET f[k \in 0..w.timeout.next] ==
            IF k = 0 THEN w ELSE check_entry(f[k - 1], w.timeout.dict, k)
    IN  NoteChecked(f[w.timeout.next])

\* len(self.dict) and 0.2 or None
Timeout_wake(w) == IF DOMAIN w.timeout.dict # {} THEN WAKE ELSE NoTime

\* ------------------------------------------------------------------ FIFOControl
\* the tokens int() accepts
Numerals == {"0", "55", "100"}

\* FIFOControl.volume(s): argv = s.split(); app.mixer(argv[0], int(argv[1]))
volume(w, args) ==
    IF Raised(w) THEN w
    ELSE IF Len(args) < 2 THEN Raise(w, "IndexError")
    ELSE IF args[2] \notin Numerals THEN Raise(w, "ValueError")
    ELSE mixer(w)

\* f(*a) for the line's verb, a being argv[1:] where the table holds None; a
\* line is its verb and the words after it ("macro" lines are not modelled)
dispatch(w, line, choice) ==
    IF line.verb = "pause" THEN Application_toggle_pause(w)
    ELSE IF line.verb = "next" THEN next_song(w, choice)
    ELSE IF line.verb = "prev" THEN prev_song(w)
    ELSE IF line.verb = "forward" THEN Application_seek(w, 1, TRUE)
    ELSE IF line.verb = "backward" THEN Application_seek(w, -1, TRUE)
    ELSE IF line.verb \in {"play", "stop"} THEN Application_toggle_stop(w)
    ELSE IF line.verb = "volume"
    THEN IF line.args = <<>> THEN Raise(w, "TypeError") ELSE volume(w, line.args)
    ELSE IF line.verb = "add"
    THEN IF line.args = <<>> THEN Raise(w, "TypeError")
         ELSE add(w, line.args[1] = "song.mp3")
    ELSE IF line.verb = "empty" THEN command_delete_all(w)
    ELSE IF line.verb = "quit" THEN Application_quit(w)
    ELSE w

\* open(CONTROL_FIFO, "rb+", 0): readline() returns bytes
fd_binary == TRUE

\* observation: the line handle_command read, and the playback state, the
\* playlist and the scheduler it found
NoteLine(w, line) ==
    IF "line" \in w.env.observe
    THEN [w EXCEPT !.seen.line = line,
                   !.seen.before = <<w.player.entry, w.player.offset, w.player.paused,
                                      w.player.stopped, w.pl.buffer>>,
                   !.seen.sched = w.timeout]
    ELSE w

\* argv = self.fd.readline().strip().split(" ", 1): bytes.split with a str
\* separator raises TypeError
handle_command(w, line, choice) ==
    IF Raised(w) THEN w
    ELSE IF fd_binary THEN Raise(NoteLine(w, line), "TypeError")
    ELSE dispatch(NoteLine(w, line), line, choice)

\* ------------------------------------------------------------------ keys
\* keymapstack.process(c) for the keys of the root window, and Enter and X in
\* the playlist window
process_key(w, key, choice) ==
    IF Raised(w) THEN w
    ELSE IF key = "RIGHT" THEN Application_seek(w, 1, TRUE)
    ELSE IF key = "LEFT" THEN Application_seek(w, -1, TRUE)
    ELSE IF key = "^" THEN Application_seek(w, 0, FALSE)
    ELSE IF key = "$" THEN Application_seek(w, -1, FALSE)
    ELSE IF key = "n" THEN next_song(w, choice)
    ELSE IF key = "p" THEN prev_song(w)
    ELSE IF key = "z" THEN Application_toggle_pause(w)
    ELSE IF key = "x" THEN Application_toggle_stop(w)
    ELSE IF key = "Q" THEN Application_quit(NoteQuit(w, "key"))
    ELSE IF key = "ENTER" THEN command_play(w)
    ELSE IF key = "X" THEN command_toggle_stop(w)
    ELSE w

\* ------------------------------------------------------------------ Application.run
\* one iteration of run() up to select(): the timers that are due, then the
\* poll of a session that is not stopped and the advance to the next track
\* entry and self.play(entry)
play_returned(r) == IF r.ret = None THEN r.w ELSE Application_play(r.w, r.ret, 0)

end_of_track_whatever_stop(w, choice) ==
    play_returned(change_active_entry([w EXCEPT !.player.stopped = TRUE], 1, choice))

\* poll() returned true: self.player.stopped = 1, and the advance unless
\* stop-after-track is set
end_of_track(w, choice) ==
    IF w.pl.stop THEN [w EXCEPT !.player.stopped = TRUE]
    ELSE play_returned(change_active_entry([w EXCEPT !.player.stopped = TRUE], 1, choice))

polled(p, choice) ==
    IF Raised(p.w) \/ ~p.ret THEN p.w ELSE end_of_track(p.w, choice)

\* select() is called next, with this timeout
to_select(w, wait) == [w EXCEPT !.app.pc = "select", !.app.wait = wait]

checked(w, choice) ==
    IF Raised(w) THEN w
    ELSE IF w.player.stopped THEN to_select(w, Timeout_wake(w))
    ELSE IF w.app.kludge THEN to_select(polled(poll(w), choice), POLL_INTERVAL)
    ELSE to_select(w, POLL_INTERVAL)

run_top(w, choice) == checked(check(w), choice)

\* a HUP, INT or TERM signal taken
Signalled(w) == NoteQuit([w EXCEPT !.env.signals_left = @ - 1], "signal")

\* the iteration polls the session
polls(w) == ~Raised(w) /\ ~w.player.stopped /\ w.app.kludge

\* handler_quit runs while the main thread is inside the try of Player.poll:
\* quit() stops the session, and the bare except of poll takes the SystemExit
\* of sys.exit for a failure of os.waitpid (which fails anyway once the
\* process is stopped); poll goes on in its except branch and run() after it
checked_signalled(w, choice) ==
    to_select(polled(poll(Player_stop(Signalled(w), TRUE)), choice), POLL_INTERVAL)

\* the rest of the iteration: select() has returned after dt, with a key, a
\* chunk on stderr, a chunk on stdout and a remote line ready or not (a
\* sequence of length 0 or 1 each); they are served in this order
selected(w, dt, key, err, out, line) ==
    [w EXCEPT !.env.now = @ + dt,
              !.env.keys_left = @ - Len(key),
              !.env.chunks_left = @ - (Len(err) + Len(out)),
              !.env.lines_left = @ - Len(line),
              !.app.kludge = TRUE,
              !.app.pc = "top",
              !.seen.order = <<>>]

\* observation: the `if ... in r:` of this source is entered
Served(w, ready, name) ==
    IF "order" \in w.env.observe /\ ready # <<>> /\ ~Raised(w)
    THEN [w EXCEPT !.seen.order = Append(@, name)]
    ELSE w

if_stdin(w, key, choice) == IF key # <<>> THEN process_key(w, key[1], choice) ELSE w

if_player(w, chunk) == IF chunk # <<>> THEN read_fd(w, chunk[1]) ELSE w

if_control(w, line, choice) ==
    IF line # <<>> THEN handle_command(w, line[1], choice) ELSE w

run_select_remote_first(w, dt, key, err, out, line, choice) ==
    if_player(Served(
        if_player(Served(
            if_stdin(Served(
                if_control(Served(selected(w, dt, key, err, out, line), line, "control"),
                           line, choice),
                key, "stdin"), key, choice),
            err, "stderr"), err),
        out, "stdout"), out)

run_select(w, dt, key, err, out, line, choice) ==
    if_control(Served(
        if_player(Served(
            if_player(Served(
                if_stdin(Served(selected(w, dt, key, err, out, line), key, "stdin"),
                         key, choice),
                err, "stderr"), err),
            out, "stdout"), out),
        line, "control"), line, choice)

\* ------------------------------------------------------------------ observation
\* the advance that ran last: what it was called with, what it found and what it
\* returned; seq tells two advances in a row apart
Advance(dir, ret, w) ==
    [op |-> "change_active_entry", dir |-> dir, ret |-> ret,
     old |-> get_active_entry(w),
     oldtail |-> IF w.pl.random_prev = <<>> THEN None ELSE Last(w.pl.random_prev),
     seq |-> 1 - last.seq]

\* any other operation ran last
Other == [op |-> "other", dir |-> 0, ret |-> None, old |-> None, oldtail |-> None,
          seq |-> last.seq]

\* the pools as command_toggle_random leaves them
FreshPools(w) ==
    w.pl.random_prev = <<>> /\ w.pl.random_next = <<>> /\ w.pl.random_left = w.pl.buffer

\* change_active_entry(1) is about to refill random_left from the buffer
Refills(w) ==
    /\ w.pl.buffer # <<>> /\ w.pl.random /\ w.pl.repeat
    /\ w.pl.random_next = <<>> /\ w.pl.random_left = <<>>

\* a state from which a run of advance-forward calls is counted: fresh random
\* pools with repeat off, or sequential mode with repeat off and no active track
RunStart(w) ==
    [kind |-> IF w.pl.random /\ ~w.pl.repeat /\ FreshPools(w)
              THEN "random"
              ELSE IF ~w.pl.random /\ ~w.pl.repeat /\ get_active_entry(w) = None
              THEN "sequential"
              ELSE "none",
     n |-> Len(w.pl.buffer),
     rets |-> <<>>,
     refilled |-> run.refilled /\ ~FreshPools(w)]

RunForward(ret, refill) ==
    IF run.kind # "none" /\ Len(run.rets) <= run.n
    THEN [run EXCEPT !.rets = Append(@, ret), !.refilled = @ \/ refill]
    ELSE [run EXCEPT !.kind = "none", !.rets = <<>>, !.refilled = @ \/ refill]

\* ------------------------------------------------------------------ actions
\* the world at the start of a handler
W0 == [World EXCEPT !.child.forks = 0]

\* an exception no handler catches leaves run(): main() cleans up and exits
Commit(w) ==
    /\ win_playlist' = w.pl
    /\ entries' = w.en
    /\ player' = w.player
    /\ child' = w.child
    /\ timeout' = w.timeout
    /\ win_status' = w.st
    /\ app' = IF Raised(w) THEN [w.app EXCEPT !.running = FALSE] ELSE w.app
    /\ env' = w.env
    /\ seen' = w.seen

Running == app.running

\* a handler that is not an advance: the world it leaves, and its name
DidOp(w, op) ==
    /\ w.timeout.next <= env.max_tid
    /\ Commit(w)
    /\ last' = IF "last" \in env.observe THEN [Other EXCEPT !.op = op] ELSE last
    /\ run' = IF "run" \in env.observe THEN RunStart(w) ELSE run

Did(w) == DidOp(w, "other")

Add ==
    /\ Running
    /\ entries.created < env.max_tracks
    /\ \E song \in env.kinds : Did(add(W0, song))

ChangeActiveEntry ==
    /\ Running
    /\ \E direction \in {1, -1} :
       \E choice \in IF direction = 1 /\ choice_list(W0) # <<>>
                     THEN Elems(choice_list(W0)) ELSE {None} :
          LET r == change_active_entry(W0, direction, choice)
          IN  /\ Commit(r.w)
              /\ last' = IF "last" \in env.observe
                         THEN Advance(direction, r.ret, W0) ELSE last
              /\ run' = IF "run" \notin env.observe THEN run
                        ELSE IF direction = 1 THEN RunForward(r.ret, Refills(W0))
                        ELSE RunStart(r.w)

CommandPlay == Running /\ Did(command_play(W0))

CommandDelete == Running /\ DidOp(command_delete(W0), "command_delete")

CommandDeleteAll == Running /\ DidOp(command_delete_all(W0), "command_delete_all")

CommandMove == Running /\ \E after \in {0, 1} : Did(command_move(W0, after))

CommandShuffle ==
    Running /\ \E perm \in Perms(win_playlist.buffer) :
        Did(command_shuffle(W0, perm))

CommandSort == Running /\ Did(command_sort(W0))

CommandToggleRepeat == Running /\ Did(command_toggle_repeat(W0))

CommandToggleRandom == Running /\ Did(command_toggle_random(W0))

CommandToggleStop == Running /\ Did(command_toggle_stop(W0))

CommandTagUntag == Running /\ Did(command_tag_untag(W0))

CommandInvertTags == Running /\ Did(command_invert_tags(W0))

CursorMove == Running /\ \E ydiff \in {1, -1} : Did(cursor_move(W0, ydiff))

\* ------------------------------------------------------------------ the main loop
\* a handler of the main loop: the world it leaves
Looped(w) ==
    /\ w.timeout.next <= env.max_tid
    /\ Commit(w)
    /\ UNCHANGED <<last, run>>

\* what random.choice may return in this state
Choices == IF choice_list(W0) # <<>> THEN Elems(choice_list(W0)) ELSE {None}

\* nothing, or one of S, while the specification has some left
Opt(S, left) == IF left > 0 THEN {<<>>} \cup {<<x>> : x \in S} ELSE {<<>>}

LoopTop ==
    /\ Running /\ app.pc = "top"
    /\ \E choice \in Choices : Looped(run_top(W0, choice))

\* select() returns at its timeout when nothing is ready, and no later than
\* that when something is; the pipes of the player hold something only once a
\* child has been spawned
Select ==
    /\ Running /\ app.pc = "select"
    /\ \E key \in Opt(env.keys, env.keys_left),
          err \in Opt(env.err_chunks, IF child.st = "none" THEN 0 ELSE env.chunks_left),
          line \in Opt(env.lines, env.lines_left) :
       \E out \in Opt(env.chunks, IF child.st = "none" THEN 0
                                   ELSE env.chunks_left - Len(err)) :
       \E dt \in IF key = <<>> /\ err = <<>> /\ out = <<>> /\ line = <<>>
                  THEN {app.wait} \ {NoTime}
                  ELSE {d \in env.steps : app.wait = NoTime \/ d <= app.wait} :
          /\ env.now + dt <= env.max_time
          /\ \E choice \in Choices :
                Looped(run_select(W0, dt, key, err, out, line, choice))

\* the player process ends by itself
ChildExit ==
    /\ Running /\ child.st = "run" /\ env.exits_left > 0
    /\ Looped([W0 EXCEPT !.child.st = "gone", !.env.exits_left = @ - 1])

NextLoop == LoopTop \/ Select \/ ChildExit

\* signal.signal(SIGHUP / SIGINT / SIGTERM, self.handler_quit): the handler
\* runs in the main thread where it stands. In select(), the SystemExit of
\* quit(1) leaves select() and run(); in the try of Player.poll it is caught.
SignalInSelect ==
    /\ Running /\ env.signals_left > 0 /\ app.pc = "select"
    /\ Looped(Application_quit(Signalled(W0)))

SignalInPoll ==
    /\ Running /\ env.signals_left > 0 /\ app.pc = "top"
    /\ polls(check(W0))
    /\ \E choice \in Choices : Looped(checked_signalled(check(W0), choice))

NextQuit == NextLoop \/ SignalInSelect \/ SignalInPoll

\* ------------------------------------------------------------------ initial state
\* the environment of a specification: nothing installed or typed beyond what
\* the specification grants
Env0 ==
    [now |-> 0, installed |-> TRUE, mixer |-> TRUE, kinds |-> {TRUE}, observe |-> {},
     max_tracks |-> 0, max_tid |-> 0, max_time |-> 0,
     keys |-> {}, chunks |-> {}, err_chunks |-> {}, lines |-> {}, steps |-> {},
     keys_left |-> 0, chunks_left |-> 0, lines_left |-> 0, exits_left |-> 0,
     players |-> <<>>, signals_left |-> 0]

NoChunk == [m |-> FALSE, pos |-> 0, len |-> 0]

NoPoll ==
    [found |-> "", at |-> 0, setup |-> NoTime, before |-> 0, respawned |-> FALSE,
     ret |-> FALSE, seq |-> 0]

NoLine == [verb |-> "", args |-> <<>>]

NoSeen ==
    [burst |-> [n |-> 0, at |-> 0, entry |-> None, offset |-> 0], fired |-> <<>>,
     checked |-> NoTime, log |-> <<>>, poll |-> NoPoll, respawns |-> 0,
     line |-> NoLine, before |-> <<>>, sched |-> [next |-> 0, dict |-> <<>>],
     order |-> <<>>, setup |-> [n |-> 0, suffix |-> "", player |-> None],
     quit |-> "", sought |-> ""]

\* Application.setup and the constructors of the objects
Boot(e) ==
    [pl |-> [buffer |-> <<>>, bufptr |-> 0, repeat |-> FALSE, random |-> FALSE,
             stop |-> FALSE, random_prev |-> <<>>, random_next |-> <<>>,
             random_left |-> <<>>],
     en |-> [created |-> 0, tagged |-> {}, active |-> {}, song |-> {}],
     player |-> [entry |-> None, stopped |-> FALSE, paused |-> FALSE, time_setup |-> NoTime,
                 offset |-> 0, length |-> 0, step |-> 0, attrs |-> {}, tid |-> None,
                 buf |-> NoChunk],
     child |-> [st |-> "none", orphans |-> 0, forks |-> 0],
     timeout |-> [next |-> 0, dict |-> <<>>],
     st |-> [current_message |-> Text(""), default_message |-> Text(""), tid |-> None],
     app |-> [play_tid |-> None, kludge |-> FALSE, running |-> TRUE, exc |-> "",
              pc |-> "top", wait |-> NoTime],
     env |-> e,
     seen |-> NoSeen]

\* main(): the files named on the command line are added before run()
Args(w, n) ==
    IF n = 0 THEN w ELSE IF n = 1 THEN add(w, TRUE) ELSE add(add(w, TRUE), TRUE)

InitWorld(w) ==
    /\ win_playlist = w.pl
    /\ entries = w.en
    /\ player = w.player
    /\ child = w.child
    /\ timeout = w.timeout
    /\ win_status = w.st
    /\ app = w.app
    /\ env = w.env
    /\ seen = w.seen
    /\ last = [op |-> "other", dir |-> 0, ret |-> None, old |-> None, oldtail |-> None, seq |-> 0]
    /\ run = [kind |-> "sequential", n |-> 0, rets |-> <<>>, refilled |-> FALSE]

\* ------------------------------------------------------------------ the playlist window
\* Every operation of PlaylistWindow, on a playlist of songs, the player installed.
InitPlaylist ==
    InitWorld(Boot([Env0 EXCEPT !.max_tracks = PlaylistTracks, !.max_tid = PlaylistTids]))

NextPlaylist ==
    \/ Add
    \/ ChangeActiveEntry
    \/ CommandPlay
    \/ CommandDelete
    \/ CommandDeleteAll
    \/ CommandMove
    \/ CommandShuffle
    \/ CommandSort
    \/ CommandToggleRepeat
    \/ CommandToggleRandom
    \/ CommandToggleStop
    \/ CommandTagUntag
    \/ CommandInvertTags
    \/ CursorMove

SpecPlaylist == InitPlaylist /\ [][NextPlaylist]_vars

\* The navigator: the operations that read or write the active flag and the
\* random pools, each advance observed.
NextNav ==
    \/ Add
    \/ ChangeActiveEntry
    \/ CommandPlay
    \/ CommandDelete
    \/ CommandDeleteAll
    \/ CommandToggleRepeat
    \/ CommandToggleRandom
    \/ CommandTagUntag
    \/ CursorMove

InitNav ==
    InitWorld(Boot([Env0 EXCEPT !.observe = {"last"}, !.max_tracks = MaxTracks,
                                !.max_tid = MaxTid]))

SpecNav == InitNav /\ [][NextNav]_vars

\* The same, the runs of consecutive advance-forward calls observed.
InitRun ==
    InitWorld(Boot([Env0 EXCEPT !.observe = {"run"}, !.max_tracks = MaxTracks,
                                !.max_tid = MaxTid]))

SpecRun == InitRun /\ [][NextNav]_vars

\* The main loop with two songs named on the command line: the seek keys, a
\* player that reports its position once and may end by itself.
InitSeek ==
    InitWorld(Args(Boot([Env0 EXCEPT !.observe = {"seek", "log"},
                                     !.max_tid = SeekTids, !.max_time = SeekTime,
                                     !.keys = {"RIGHT", "LEFT"}, !.keys_left = SeekKeys,
                                     !.chunks = {[m |-> TRUE, pos |-> 1, len |-> 4]},
                                     !.chunks_left = 1,
                                     !.steps = {0, 2},
                                     !.exits_left = 1]), 2))

SpecSeek == InitSeek /\ [][NextLoop]_vars

ResumeTime == 16

ResumeTids == 4

ResumeKeys == 3

\* The main loop with one song named on the command line, a player that
\* writes its position once, and the keys that seek forward, pause and stop.
InitResume ==
    InitWorld(Args(Boot([Env0 EXCEPT !.observe = {"seek", "sought"},
                                     !.max_tid = ResumeTids, !.max_time = ResumeTime,
                                     !.keys = {"RIGHT", "z", "x"}, !.keys_left = ResumeKeys,
                                     !.chunks = {[m |-> TRUE, pos |-> 1, len |-> 4]},
                                     !.chunks_left = 1,
                                     !.steps = {0, 2},
                                     !.exits_left = 1]), 1))

SpecResume == InitResume /\ [][NextLoop]_vars

PauseTime == 30

PauseTids == 3

PauseKeys == 2

\* os.kill(-self.pid, SIGSTOP) returned, and the child ends all the same: it
\* was leaving when the signal reached it, or it is killed while it is
\* suspended
ChildLost ==
    /\ Running /\ child.st = "susp" /\ env.exits_left > 0
    /\ Looped([W0 EXCEPT !.child.st = "gone", !.env.exits_left = @ - 1])

NextPause == NextLoop \/ ChildLost

\* The main loop with one song named on the command line, the keys that
\* pause, stop and seek forward, and a player that ends at any moment.
InitPause ==
    InitWorld(Args(Boot([Env0 EXCEPT !.max_tid = PauseTids, !.max_time = PauseTime,
                                     !.keys = {"RIGHT", "z", "x"}, !.keys_left = PauseKeys,
                                     !.steps = {0, 2},
                                     !.exits_left = 1]), 1))

SpecPause == InitPause /\ [][NextPause]_vars

VerbTime == 12

VerbTids == 2

VerbKeys == 2

\* The main loop with one song named on the command line, a player that ends
\* by itself, the stop/play key, and a remote client that writes the lines
\* "play" and "stop".
InitVerbs ==
    InitWorld(Args(Boot([Env0 EXCEPT !.observe = {"line"},
                                     !.max_tid = VerbTids, !.max_time = VerbTime,
                                     !.keys = {"x"}, !.keys_left = VerbKeys,
                                     !.lines = {[verb |-> "play", args |-> <<>>],
                                                [verb |-> "stop", args |-> <<>>]},
                                     !.lines_left = 2,
                                     !.steps = {0, 2},
                                     !.exits_left = 1]), 1))

SpecVerbs == InitVerbs /\ [][NextLoop]_vars

ToggleTime == 30

ToggleTids == 5

ToggleKeys == 2

\* The main loop with one song named on the command line, a player that
\* writes its position and ends by itself, and the keys that stop or start
\* and seek forward.
InitToggle ==
    InitWorld(Args(Boot([Env0 EXCEPT !.observe = {"seek"},
                                     !.max_tid = ToggleTids, !.max_time = ToggleTime,
                                     !.keys = {"x", "RIGHT"}, !.keys_left = ToggleKeys,
                                     !.chunks = {[m |-> TRUE, pos |-> 1, len |-> 4],
                                                 [m |-> TRUE, pos |-> 2, len |-> 4]},
                                     !.chunks_left = 1,
                                     !.steps = {0, 5},
                                     !.exits_left = 1]), 1))

SpecToggle == InitToggle /\ [][NextLoop]_vars

\* The main loop with two songs named on the command line and a user who at
\* most sets stop-after-track: a player that ends by itself, early or late,
\* again and again.
InitPoll ==
    InitWorld(Args(Boot([Env0 EXCEPT !.observe = {"poll"},
                                     !.max_tid = PollTids, !.max_time = PollTime,
                                     !.keys = {"X"}, !.keys_left = 1,
                                     !.chunks = {NoChunk}, !.chunks_left = 1,
                                     !.steps = {0, 2},
                                     !.exits_left = PollExits]), 2))

SpecPoll == InitPoll /\ [][NextLoop]_vars

\* the remote lines "volume 0 x", "volume 0" and "volume"
MalformedVolume ==
    {[verb |-> "volume", args |-> <<"0", "x">>],
     [verb |-> "volume", args |-> <<"0">>],
     [verb |-> "volume", args |-> <<>>]}

\* remote lines whose first token is no key of self.commands: an unknown word,
\* a verb in the wrong case, and an empty line
UnknownVerb ==
    {[verb |-> "frobnicate", args |-> <<"1">>],
     [verb |-> "Pause", args |-> <<>>],
     [verb |-> "", args |-> <<>>]}

\* The main loop with one song named on the command line, a remote client that
\* writes one line, the stop, pause and seek keys, and a player that writes
\* its position once to each of its pipes.
InitRemote ==
    InitWorld(Args(Boot([Env0 EXCEPT !.observe = {"line", "order"},
                                     !.chunks = {[m |-> TRUE, pos |-> 1, len |-> 4]},
                                     !.err_chunks = {[m |-> TRUE, pos |-> 2, len |-> 4]},
                                     !.chunks_left = 2,
                                     !.max_tid = RemoteTids, !.max_time = RemoteTime,
                                     !.keys = {"RIGHT", "z", "x"}, !.keys_left = RemoteKeys,
                                     !.lines = MalformedVolume \cup UnknownVerb, !.lines_left = 1,
                                     !.steps = {0, 2},
                                     !.exits_left = 1]), 1))

SpecRemote == InitRemote /\ [][NextLoop]_vars

\* The main loop with one song of one second named on the command line, and
\* the keys that seek: a step forward or backward, to the start, to the end.
InitJump ==
    InitWorld(Args(Boot([Env0 EXCEPT !.observe = {"log"},
                                     !.max_tid = JumpTids, !.max_time = JumpTime,
                                     !.keys = {"RIGHT", "LEFT", "^", "$"},
                                     !.keys_left = JumpKeys,
                                     !.chunks = {[m |-> TRUE, pos |-> 0, len |-> 1],
                                                 [m |-> TRUE, pos |-> 1, len |-> 1]},
                                     !.chunks_left = 1,
                                     !.steps = {0, 2},
                                     !.exits_left = 1]), 1))

SpecJump == InitJump /\ [][NextLoop]_vars

\* The main loop with two songs named on the command line and no player
\* executable on the PATH: which() returns None for every backend.
InitLost ==
    InitWorld(Args(Boot([Env0 EXCEPT !.installed = FALSE,
                                     !.max_tid = LostTids, !.max_time = LostTime,
                                     !.keys = {"ENTER"}, !.keys_left = LostKeys,
                                     !.chunks = {NoChunk}, !.chunks_left = 1,
                                     !.steps = {0, 2},
                                     !.exits_left = 1]), 2))

SpecLost == InitLost /\ [][NextLoop]_vars

\* The main loop with one song named on the command line, a seek key, and a
\* player that writes to its stdout, in any order, its position after one
\* second, after two seconds, and text that re_progress does not match.
ProgressTime == 16

ProgressTids == 4

ProgressChunks == 3

InitProgress ==
    InitWorld(Args(Boot([Env0 EXCEPT !.observe = {"order"},
                                     !.max_tid = ProgressTids, !.max_time = ProgressTime,
                                     !.keys = {"RIGHT"}, !.keys_left = 1,
                                     !.chunks = {[m |-> TRUE, pos |-> 1, len |-> 4],
                                                 [m |-> TRUE, pos |-> 2, len |-> 4],
                                                 NoChunk},
                                     !.chunks_left = ProgressChunks,
                                     !.steps = {0, 2},
                                     !.exits_left = 1]), 1))

SpecProgress == InitProgress /\ [][NextLoop]_vars

\* The main loop with two songs named on the command line and the ways to
\* end the program: the key Q, the remote line `quit`, a signal; the pause key
\* besides, and a player that may end by itself.
QuitTime == 30

QuitTids == 3

QuitKeys == 2

InitQuit ==
    InitWorld(Args(Boot([Env0 EXCEPT !.observe = {"quit", "line"},
                                     !.max_tid = QuitTids, !.max_time = QuitTime,
                                     !.keys = {"Q", "z"}, !.keys_left = QuitKeys,
                                     !.lines = {[verb |-> "quit", args |-> <<>>]},
                                     !.lines_left = 1,
                                     !.signals_left = 1,
                                     !.steps = {0, 2},
                                     !.exits_left = 1]), 2))

SpecQuit == InitQuit /\ [][NextQuit]_vars

\* The main loop with two songs named on the command line and the keys that
\* ask for the next and the previous track.
SkipTime == 14

SkipTids == 4

SkipKeys == 3

InitSkip ==
    InitWorld(Args(Boot([Env0 EXCEPT !.max_tid = SkipTids, !.max_time = SkipTime,
                                     !.keys = {"n", "p"}, !.keys_left = SkipKeys,
                                     !.steps = {0, 2},
                                     !.exits_left = 1]), 2))

SpecSkip == InitSkip /\ [][NextLoop]_vars

\* ------------------------------------------------------------------ the registry
\* PLAYERS is a list of profiles in the order play() tries them. As shipped it
\* holds the mplayer profile alone; the lines commented out in it are further
\* profiles, several of them for the same files. A profile is told by the
\* files its pattern matches and by whether which() finds its executable.
MaxPlayers == 2

SetupTids == 2

Suffixes == {"mp3", "ogg", "txt"}

Profiles == [files : {{"mp3"}, {"ogg"}, {"mp3", "ogg"}}, path : BOOLEAN]

Registries == UNION {[1..n -> Profiles] : n \in 1..MaxPlayers}

\* the loop stops at the first profile that matches, whatever which() found
find_player_first_match(players, suffix) ==
    LET f[i \in 1..(Len(players) + 1)] ==
            IF i > Len(players) THEN None
            ELSE IF suffix \in players[i].files
                 THEN (IF players[i].path THEN i ELSE None)
            ELSE f[i + 1]
    IN  f[1]

\* for self.player in PLAYERS:
\*     if self.player.re_files.search(entry.pathname):
\*         if self.player.setup(entry, offset): break
\* the place in the list of the profile the loop breaks at, or None when the
\* loop runs to its else branch
find_player(players, suffix) ==
    LET f[i \in 1..(Len(players) + 1)] ==
            IF i > Len(players) THEN None
            ELSE IF suffix \in players[i].files /\ players[i].path THEN i
            ELSE f[i + 1]
    IN  f[1]

NoteFound(w, suffix, i) ==
    [w EXCEPT !.seen.setup = [n |-> IF @.n < 2 THEN @.n + 1 ELSE @.n,
                              suffix |-> suffix, player |-> i]]

\* else: app.status("Player not found!", 1); self.player.stopped = 0
found(w, i) ==
    IF i = None THEN keep_going(status(w, Text("Player not found!"), STATUS_SHORT))
    ELSE w

\* play() looks for the profile of a file with this suffix
Setup ==
    /\ Running
    /\ \E suffix \in Suffixes :
          Looped(found(NoteFound(W0, suffix, find_player(env.players, suffix)),
                       find_player(env.players, suffix)))

\* The choice of a profile by play(), for every registry of one or two profiles.
InitSetup ==
    \E players \in Registries :
        InitWorld(Boot([Env0 EXCEPT !.players = players, !.max_tid = SetupTids]))

SpecSetup == InitSetup /\ [][Setup]_vars

\* ------------------------------------------------------------------ the scheduler
\* a call of a method of Timeout by a client: the world it leaves, and what ran
Sched(w, ran) ==
    /\ w.timeout.next <= env.max_tid
    /\ Commit(w)
    /\ last' = ran
    /\ UNCHANGED run

\* app.timeout.add(duration, self.timeout), as StatusWindow.status registers
\* it, or app.timeout.add(1.0, self.parse_progress)
SchedAdd ==
    /\ Running
    /\ \E delay \in {DEBOUNCE, STATUS_SHORT}, func \in {"status_timeout", "parse_progress"} :
          Sched(Timeout_add(W0, delay, func, None, 0), Other)

\* app.timeout.remove(tid), for any id a client may hold
SchedRemove ==
    /\ Running
    /\ \E tid \in 1..env.max_tid :
          Sched(Timeout_remove(W0, tid),
                [Other EXCEPT !.op = "Timeout_remove", !.ret = tid, !.seq = 1 - last.seq])

\* time passes and run() calls self.timeout.check(now)
SchedCheck ==
    /\ Running
    /\ \E dt \in env.steps :
          /\ env.now + dt <= env.max_time
          /\ Sched(check([W0 EXCEPT !.env.now = @ + dt]), Other)

\* The scheduler alone: callbacks are registered, cancelled by id and run when due.
InitTimeout ==
    InitWorld(Boot([Env0 EXCEPT !.observe = {"tick"},
                                !.max_tid = SchedTids, !.max_time = SchedTime,
                                !.steps = {2, 5}]))

SpecTimeout == InitTimeout /\ [][SchedAdd \/ SchedRemove \/ SchedCheck]_vars

\* The scheduler with its clients in the application: the volume keys report
\* the volume for a second, next_song and prev_song register a play callback,
\* and run() checks the scheduler after the wait of select() and the time the
\* handlers took. The playlist holds a song and a file no profile matches.
CancelTime == 20

CancelTids == 4

KeyVolume == Running /\ Sched(mixer(W0), Other)

NextSong == Running /\ \E choice \in Choices : Sched(next_song(W0, choice), Other)

PrevSong == Running /\ Sched(prev_song(W0), Other)

InitCancel ==
    InitWorld(add(add(Boot([Env0 EXCEPT !.observe = {"tick"}, !.kinds = BOOLEAN,
                                        !.max_tid = CancelTids, !.max_time = CancelTime,
                                        !.steps = {5, 10}]), TRUE), FALSE))

SpecCancel == InitCancel /\ [][KeyVolume \/ NextSong \/ PrevSong \/ SchedCheck]_vars

\* ================================================================== claims
ActiveEntry == get_active_entry(World)

ActiveInPlaylist == {e \in Elems(win_playlist.buffer) : e \in entries.active}

Pools == <<win_playlist.random_prev, win_playlist.random_next, win_playlist.random_left>>

\* ------------------------------------------------------------------ C1
\* C1: after any sequence of playlist operations at most one track contained in
\* the playlist has active = true.
C1_AtMostOneActive == Cardinality(ActiveInPlaylist) <= 1

\* three tracks have been added and reordered, one deleted while it was active,
\* and a track of the playlist is active in random mode
C1_Witness ==
    /\ Len(win_playlist.buffer) = 2
    /\ Cardinality(ActiveInPlaylist) = 1
    /\ entries.active \ Elems(win_playlist.buffer) # {}
    /\ win_playlist.random
    /\ win_playlist.random_prev # <<>>
    /\ win_playlist.buffer[1] > win_playlist.buffer[2]

\* ------------------------------------------------------------------ C2
\* C2 as stated: in random mode the three pools are duplicate-free, pairwise
\* disjoint, and their union is the set of playlist tracks, whatever the repeat flag.
C2_PoolsPartition ==
    win_playlist.random =>
        /\ \A i \in 1..3 : NoDup(Pools[i])
        /\ \A i, j \in 1..3 : i # j => Elems(Pools[i]) \cap Elems(Pools[j]) = {}
        /\ UNION {Elems(Pools[i]) : i \in 1..3} = Elems(win_playlist.buffer)

\* C2 as amended: in random mode each pool is duplicate-free, prev and next are
\* disjoint and every playlist track is in at least one pool and no other track is;
\* the three pools are pairwise disjoint as long as random_left has not been
\* refilled from the whole playlist (repeat on) since the pools were initialised.
C2_PoolsCover ==
    win_playlist.random =>
        /\ \A i \in 1..3 : NoDup(Pools[i])
        /\ Elems(Pools[1]) \cap Elems(Pools[2]) = {}
        /\ UNION {Elems(Pools[i]) : i \in 1..3} = Elems(win_playlist.buffer)
        /\ ~run.refilled =>
              \A i, j \in 1..3 : i # j => Elems(Pools[i]) \cap Elems(Pools[j]) = {}

\* random_left was refilled and a track drawn, stepped back from and a track
\* deleted: all three pools are non-empty and left shares a track with each other pool
C2_Witness ==
    /\ win_playlist.random /\ run.refilled
    /\ Len(win_playlist.buffer) = 2
    /\ entries.created = 3
    /\ Elems(Pools[1]) \cap Elems(Pools[3]) # {}
    /\ Elems(Pools[2]) \cap Elems(Pools[3]) # {}

\* ------------------------------------------------------------------ C3
\* this step is an advance in the given direction
AdvanceStep(d) ==
    /\ last'.op = "change_active_entry" /\ last'.dir = d /\ last'.seq # last.seq

\* the operation before this step was an advance-forward in random mode that
\* returned a track, and this step is an advance-backward
ForwardThenBackward ==
    /\ last.op = "change_active_entry" /\ last.dir = 1 /\ last.ret # None
    /\ win_playlist.random
    /\ AdvanceStep(-1)

\* C3 as stated: in random mode an advance-forward that returns a track, followed
\* at once by an advance-backward, leaves active the track that was active before
\* the forward advance, provided at least two distinct tracks have been visited.
\* It is stated here for the forward advances that start with the active track at
\* the tail of prev, where the history and the active flag agree.
C3_BackRestoresActive ==
    [][ForwardThenBackward /\ last.old # None /\ last.old = last.oldtail
                           /\ Cardinality(Elems(win_playlist.random_prev)) >= 2
           => ActiveEntry' = last.old]_vars

\* C3 as amended: in random mode an advance-forward that returns a track other
\* than the tail of prev, followed at once by an advance-backward, makes that
\* former tail of prev the active track and returns it.
C3_BackRestoresTail ==
    [][ForwardThenBackward /\ last.oldtail # None /\ last.ret # last.oldtail
           => ActiveEntry' = last.oldtail /\ last'.ret = last.oldtail]_vars

\* an advance-backward has just gone back, with repeat on, to a track that is
\* also waiting in random_left (left was refilled), the redo stack holding the
\* track stepped back from
C3_Witness ==
    /\ last.op = "change_active_entry" /\ last.dir = -1 /\ last.ret # None
    /\ win_playlist.random /\ win_playlist.repeat
    /\ ActiveEntry = last.ret
    /\ last.old = Last(win_playlist.random_next)
    /\ last.ret \in Elems(win_playlist.random_left)

\* ------------------------------------------------------------------ C4
\* C4: in random mode with repeat off, from freshly initialised pools over N
\* tracks, N consecutive forward advances return N pairwise distinct tracks and
\* the (N+1)-th returns none without changing the active track or the pools.
C4_RandomCycle ==
    [][/\ run'.kind = "random" =>
            /\ \A i \in 1..Len(run'.rets) : (run'.rets[i] = None) <=> (i = run'.n + 1)
            /\ NoDup(run'.rets)
       /\ (run.kind = "random" /\ run'.kind = "random"
              /\ Len(run.rets) = run.n /\ Len(run'.rets) = run.n + 1)
            => /\ ActiveEntry' = ActiveEntry
               /\ Pools' = Pools
               /\ entries' = entries]_vars

\* the fourth forward advance over three tracks has returned none
C4_Witness ==
    /\ run.kind = "random" /\ run.n = 3 /\ Len(run.rets) = 4
    /\ Last(run.rets) = None

\* ------------------------------------------------------------------ C5
\* C5: in sequential mode with repeat off and no active track, the first N
\* advance-forward calls on N tracks return the tracks in playlist order, each
\* leaving the returned track the only active one; the (N+1)-th returns none and
\* the last track stays active.
C5_SequentialRun ==
    (run.kind = "sequential" /\ run.rets # <<>>) =>
        LET k == Len(run.rets)
            m == IF k <= run.n THEN k ELSE run.n
        IN  /\ Len(win_playlist.buffer) = run.n
            /\ \A i \in 1..k :
                  run.rets[i] = IF i <= run.n THEN win_playlist.buffer[i] ELSE None
            /\ ActiveInPlaylist = IF m = 0 THEN {} ELSE {win_playlist.buffer[m]}

\* the fourth call on three tracks has returned none
C5_Witness ==
    /\ run.kind = "sequential" /\ run.n = 3 /\ Len(run.rets) = 4
    /\ ActiveEntry = win_playlist.buffer[3]

\* ------------------------------------------------------------------ C6
\* C6: in sequential mode with the active track at index i and direction d: if
\* 0 <= i+d < len the track at i+d becomes active; otherwise with repeat on the
\* track at (i+d) mod len becomes active, and with repeat off the call returns
\* none and the active track is unchanged.
C6_SequentialStep ==
    [][\A d \in {1, -1} :
         (AdvanceStep(d) /\ ~win_playlist.random /\ ActiveEntry # None) =>
            LET n == Len(win_playlist.buffer)
                i == IndexOf(win_playlist.buffer, ActiveEntry) - 1
                target == win_playlist.buffer[((i + d) % n) + 1]
            IN  IF (0 <= i + d /\ i + d < n) \/ win_playlist.repeat
                THEN /\ last'.ret = target
                     /\ ActiveInPlaylist' = {target}
                     /\ (0 <= i + d /\ i + d < n) => target = win_playlist.buffer[i + d + 1]
                ELSE /\ last'.ret = None
                     /\ ActiveInPlaylist' = ActiveInPlaylist]_vars

\* a backward advance from the first track has wrapped to the last of three
C6_Witness ==
    /\ last.op = "change_active_entry" /\ last.dir = -1
    /\ ~win_playlist.random /\ win_playlist.repeat
    /\ Len(win_playlist.buffer) = 3
    /\ last.old = win_playlist.buffer[1]
    /\ last.ret = win_playlist.buffer[3]
    /\ ActiveEntry = win_playlist.buffer[3]

\* ------------------------------------------------------------------ C7
\* C7: k >= 1 seek requests, each within the debounce window (0.5 s) of the one
\* before it, result in exactly one respawn, at the offset computed by the k-th
\* request: no play callback runs for an earlier request of the burst, the one
\* that runs is called with the track and offset of the last request, and it
\* has run once the scheduler was checked after the window of the last request.
C7_OneRespawnPerBurst ==
    seen.burst.n >= 1 =>
        /\ Len(seen.fired) <= 1
        /\ \A i \in 1..Len(seen.fired) :
              seen.fired[i] = [entry |-> seen.burst.entry, offset |-> seen.burst.offset]
        /\ (app.running /\ seen.checked >= seen.burst.at + DEBOUNCE
              => Len(seen.fired) >= 1)

\* ------------------------------------------------------------------ C8
\* the relative seeks taken since the process was spawned went in these
\* directions, the length of the track being the same at each of them
Sought(dirs) ==
    /\ Len(seen.log) = Len(dirs)
    /\ \A i \in 1..Len(dirs) :
          /\ seen.log[i].relative /\ seen.log[i].dir = dirs[i]
          /\ seen.log[i].length = seen.log[1].length

\* C8: with unit delta d = 0.2% of the length, two forward seeks since the spawn
\* leave the accumulated step at 2d, and two forward seeks followed by one
\* backward seek leave it at -d.
C8_StepResetsOnReversal ==
    /\ Sought(<<1, 1>>) => player.step = 2 * (seen.log[1].length \div UNIT)
    /\ Sought(<<1, 1, -1>>) => player.step = -(seen.log[1].length \div UNIT)

\* forward, forward, backward on a track of known length: the step is -d, not d
C8_Witness ==
    /\ Sought(<<1, 1, -1>>)
    /\ seen.log[1].length > 0
    /\ player.step < 0

\* ------------------------------------------------------------------ C9
\* the last poll happened less than 2 s after the session was set up
PolledInGrace ==
    seen.poll.setup # NoTime /\ seen.poll.at - seen.poll.setup < GRACE

\* C9: a poll that finds the process gone less than 2 s after the session was
\* set up re-spawns it if no poll has re-spawned it since the setup; if one
\* has, it does not re-spawn again and reports "ended".
C9_RespawnOnce ==
    seen.poll.found = "gone" /\ PolledInGrace =>
        /\ seen.poll.respawned <=> seen.poll.before = 0
        /\ seen.poll.before > 0 => seen.poll.ret

\* ------------------------------------------------------------------ C10
\* the playback state and the playlist
Playback ==
    <<player.entry, player.offset, player.paused, player.stopped, win_playlist.buffer>>

\* C10: handling a remote line "volume 0 x", "volume 0" or "volume" leaves the
\* main loop running and the playback state and the playlist as the handler
\* found them.
C10_MalformedVolumeIgnored ==
    [][env'.lines_left < env.lines_left /\ seen'.line \in MalformedVolume
           => app'.running /\ Playback' = seen'.before]_vars

\* ------------------------------------------------------------------ C11
\* C11: handling a remote line whose first token is not a recognised verb leaves
\* the playlist, the playback session and the scheduler as the handler found
\* them, and the main loop keeps running.
C11_UnknownVerbIgnored ==
    [][env'.lines_left < env.lines_left /\ seen'.line \in UnknownVerb
           => app'.running /\ Playback' = seen'.before /\ timeout' = seen'.sched]_vars

\* ------------------------------------------------------------------ C12
\* C12: cancelling a scheduler id that is not registered (never issued, already
\* fired or already cancelled) raises no error and leaves the registered
\* callbacks unchanged.
C12_CancelMissingIsNoop ==
    [][last'.op = "Timeout_remove" /\ last'.seq # last.seq
          /\ last'.ret \notin DOMAIN timeout.dict
           => app'.exc = "" /\ timeout'.dict = timeout.dict]_vars

\* ------------------------------------------------------------------ C13
\* C13: at every moment at most one spawned player process is alive: no process
\* is ever spawned while the one spawned before it is still alive.
C13_OneProcess == child.orphans = 0

\* a play callback of a seek has re-spawned the session while the process it
\* replaced was alive (no process has ended by itself), and the new one runs
C13_Witness ==
    /\ Len(seen.fired) >= 1
    /\ env.exits_left = 1
    /\ child.st = "run" /\ ~player.stopped

\* ------------------------------------------------------------------ C14
\* stop has returned, leaving this world: nothing was raised and stopped is set
StopReturned(s) == ~Raised(s) /\ s.player.stopped

\* the session and its process are in t as they are in s
SameSession(s, t) == t.player = s.player /\ t.child = s.child

\* C14: wherever the main loop stands, stop (quiet or not) raises nothing and
\* leaves stopped = true, whether or not a process was ever spawned or is still
\* there, and a second stop changes nothing of the session.
C14_StopSafeAndIdempotent ==
    app.running =>
        \A quiet, again \in BOOLEAN :
            /\ StopReturned(Player_stop(World, quiet))
            /\ StopReturned(Player_stop(Player_stop(World, quiet), again))
            /\ SameSession(Player_stop(World, quiet),
                           Player_stop(Player_stop(World, quiet), again))

\* the stop key has stopped a session whose process had ended by itself: the
\* session is stopped and reported as stopped, its process gone
C14_Witness ==
    /\ app.running /\ player.stopped /\ ~player.paused
    /\ win_status.default_message.k = "Stopped"
    /\ child.st = "gone" /\ env.exits_left = 0

\* ------------------------------------------------------------------ C15
\* the tracks of the pool s that are in the playlist after this step, in the
\* order they have in s
StillListed(s) ==
    LET listed(e) == e \in Elems(win_playlist'.buffer)
    IN  SelectSeq(s, listed)

\* C15: in random mode a delete (of the tagged tracks, or of the current one)
\* or a delete-all leaves in each pool exactly the tracks it held that are
\* still in the playlist, in the order they had there.
C15_DeleteFiltersPools ==
    [][last'.op \in {"command_delete", "command_delete_all"} /\ win_playlist.random
           => \A i \in 1..3 : Pools'[i] = StillListed(Pools[i])]_vars

\* a delete in random mode has taken one of three tracks out of the playlist
\* and left two visited tracks in prev, the later-added one visited first
C15_Witness ==
    /\ last.op = "command_delete" /\ win_playlist.random
    /\ entries.created = 3 /\ Len(win_playlist.buffer) = 2
    /\ Len(win_playlist.random_prev) = 2
    /\ win_playlist.random_prev[1] > win_playlist.random_prev[2]

\* ------------------------------------------------------------------ C16
\* C16: an absolute seek to -N (N > 0) leaves the offset at length - N, for
\* every length, and an absolute seek to a non-negative value leaves the
\* offset at that value.
C16_AbsoluteSeek ==
    \A i \in 1..Len(seen.log) :
        ~seen.log[i].relative =>
            seen.log[i].offset = IF seen.log[i].dir < 0
                                 THEN seen.log[i].length + seen.log[i].dir * UNIT
                                 ELSE seen.log[i].dir * UNIT

\* ------------------------------------------------------------------ C17
\* C17: every relative seek leaves the offset within 0 .. length.
C17_RelativeSeekClamped ==
    \A i \in 1..Len(seen.log) :
        seen.log[i].relative =>
            0 <= seen.log[i].offset /\ seen.log[i].offset <= seen.log[i].length

\* a seek to the end of a track of one second left the offset below 0, and the
\* step backward taken next brought it to 0, not further below
C17_Witness ==
    /\ Len(seen.log) >= 2
    /\ ~seen.log[1].relative /\ seen.log[1].offset < 0
    /\ seen.log[2].relative /\ seen.log[2].dir = -1
    /\ seen.log[2].length > 0 /\ seen.log[2].offset = 0

\* ------------------------------------------------------------------ C18
\* in this step poll ran and reported "ended"
PollEnded == seen'.poll.seq # seen.poll.seq /\ seen'.poll.ret

\* the navigator is as one advance-forward leaves it, and the track it
\* returned is spawned (when a player is found for it); when it returned none,
\* playback stays stopped and nothing is spawned
AdvancedOnce(r) ==
    /\ win_playlist' = r.w.pl /\ entries' = r.w.en
    /\ IF r.ret = None
       THEN player'.stopped /\ child'.forks = 0
       ELSE /\ player'.entry = r.ret
            /\ (which(World) /\ re_files_search(World, r.ret))
                  => child'.forks = 1 /\ child'.st = "run" /\ ~player'.stopped

\* C18: when poll reports "ended": with stop-after-track set the navigator is
\* not advanced and playback stays stopped; otherwise the navigator is advanced
\* forward exactly once and the track it returns, if any, is spawned, playback
\* staying stopped when it returns none.
C18_EndOfTrack ==
    [][PollEnded =>
          IF win_playlist.stop
          THEN /\ win_playlist' = win_playlist /\ entries' = entries
               /\ player'.stopped /\ child'.forks = 0
          ELSE AdvancedOnce(change_active_entry(World, 1, None))]_vars

\* the first track, started by an advance, has ended with stop-after-track
\* set: it is still the active track and nothing plays
C18_Witness ==
    /\ seen.poll.ret /\ win_playlist.stop
    /\ player.stopped /\ player.entry = win_playlist.buffer[1]
    /\ ActiveEntry = win_playlist.buffer[1]
    /\ child.st = "gone"

\* ------------------------------------------------------------------ C19
\* the place of a source in the fixed order
Rank(name) ==
    IF name = "stdin" THEN 1 ELSE IF name = "stderr" THEN 2
    ELSE IF name = "stdout" THEN 3 ELSE 4

\* C19: in one iteration the sources that became ready are served in the order
\* user input, child stderr, child stdout, remote control, each at most once:
\* a key that was ready is always served and served first, and as long as no
\* handler raises, so is every chunk and every remote line that was ready.
C19_ServiceOrder ==
    [][app.pc = "select" /\ app'.pc = "top" =>
          /\ \A i, j \in 1..Len(seen'.order) :
                i < j => Rank(seen'.order[i]) < Rank(seen'.order[j])
          /\ (env'.keys_left < env.keys_left) <=> (seen'.order # <<>> /\ seen'.order[1] = "stdin")
          /\ app'.running =>
                /\ (env'.lines_left < env.lines_left) <=> ("control" \in Elems(seen'.order))
                /\ env.chunks_left - env'.chunks_left =
                      Cardinality(Elems(seen'.order) \cap {"stderr", "stdout"})]_vars

\* all four sources were ready in one wake and were served in the fixed order
C19_Witness == seen.order = <<"stdin", "stderr", "stdout", "control">>

\* ------------------------------------------------------------------ C20
\* C20: starting a track that no backend matches, or whose backend's
\* executable cannot be resolved, is not fatal: a step that spawns a process
\* leaves a session whose track has a backend with a resolved executable (no
\* process is spawned for another track, at once or by a later poll), and
\* the step that reports "Player not found!" leaves the main loop running.
C20_PlayerNotFound ==
    [][/\ child'.forks > 0 => which(World) /\ re_files_search(World, player'.entry)
       /\ (app.running /\ win_status'.current_message = Text("Player not found!"))
             => app'.running]_vars

\* ------------------------------------------------------------------ C21
\* the ids registered before this step whose deadline is not after its `now`
Due == {tid \in DOMAIN timeout.dict : timeout.dict[tid].at <= env'.now}

\* the callbacks this step has run
FiredNow == SubSeq(seen'.fired, Len(seen.fired) + 1, Len(seen'.fired))

\* C21: a tick runs once, and removes, every callback registered with a
\* deadline <= now and leaves the others registered and not run; an entry is
\* removed before its callback runs, and a callback registered during the
\* tick (a later id) is not run in it.
C21_TickFiresDue ==
    [][env'.now > env.now =>
          /\ Len(FiredNow) = Cardinality(Due)
          /\ {FiredNow[i].tid : i \in 1..Len(FiredNow)} = Due
          /\ \A i \in 1..Len(FiredNow) : ~FiredNow[i].registered
          /\ \A tid \in DOMAIN timeout.dict \ Due :
                tid \in DOMAIN timeout'.dict /\ timeout'.dict[tid] = timeout.dict[tid]
          /\ \A tid \in DOMAIN timeout'.dict :
                tid \in DOMAIN timeout.dict \ Due \/ tid > timeout.next]_vars

\* two callbacks have run, one of them a parse_progress that registered its
\* successor, which is still waiting, next to an entry that was not yet due
C21_Witness ==
    /\ Len(seen.fired) = 2
    /\ timeout.next = SchedTids
    /\ Cardinality(DOMAIN timeout.dict) = 1
    /\ \E tid \in DOMAIN timeout.dict : timeout.dict[tid].func = "parse_progress"
                                         /\ timeout.dict[tid].at > env.now

\* ------------------------------------------------------------------ C22
\* C22: the ids the scheduler issues are strictly increasing and never reused:
\* every id a step registers is greater than every id issued before the step,
\* fired and cancelled ones included, and the count of issued ids never falls.
C22_IdsNeverReused ==
    [][/\ timeout'.next >= timeout.next
       /\ \A tid \in DOMAIN timeout'.dict \ DOMAIN timeout.dict :
             timeout.next < tid /\ tid <= timeout'.next
       /\ \A tid \in DOMAIN timeout.dict : tid <= timeout.next]_vars

\* the last id the bound allows is the only one registered, one of the earlier
\* ids having fired and the other being gone too
C22_Witness ==
    /\ DOMAIN timeout.dict = {SchedTids}
    /\ Len(seen.fired) = 1 /\ seen.fired[1].tid < SchedTids
    /\ timeout.dict[SchedTids].func = "status_timeout"
    /\ app.running

\* ------------------------------------------------------------------ C23
\* toggle_pause has left t, called where the process had gone: nothing was
\* raised and the session, the process and the status line are as they were
SilentNoOp(t) ==
    ~Raised(t) /\ t.player = player /\ t.child = child /\ t.st = win_status

\* C23: wherever the main loop stands with a session that was spawned,
\* toggle_pause flips the paused flag when the process is there to take the
\* signal, and when it has gone the call is silent and changes nothing.
C23_TogglePause ==
    (app.running /\ "pid" \in player.attrs) =>
        \A quiet \in BOOLEAN :
            IF child.st \in {"run", "susp"}
            THEN Player_toggle_pause(World, quiet).player.paused = ~player.paused
            ELSE SilentNoOp(Player_toggle_pause(World, quiet))

\* the process of a session that is not stopped has ended by itself, select()
\* is waiting and the user has a key left to press
C23_Witness ==
    /\ app.running /\ app.pc = "select" /\ env.keys_left > 0
    /\ "pid" \in player.attrs /\ ~player.stopped /\ ~player.paused
    /\ child.st = "gone"

\* ------------------------------------------------------------------ C24
\* C24: when an iteration of the main loop goes from the scheduler's check to
\* select(), and the check returned a wake duration, select() is given a
\* timeout that is no longer than that duration, also while a session plays.
C24_WaitWithinWake ==
    [][(app.pc = "top" /\ app'.pc = "select" /\ app'.running
            /\ Timeout_wake(check(World)) # NoTime)
        => (app'.wait # NoTime /\ app'.wait <= Timeout_wake(check(World)))]_vars

\* ------------------------------------------------------------------ C25
\* the places in the registry of the profiles whose pattern matches the file
\* play() last looked a profile up for
Matching == {i \in 1..Len(env.players) : seen.setup.suffix \in env.players[i].files}

Resolvable == {i \in Matching : env.players[i].path}

First(S) == CHOOSE i \in S : \A j \in S : i <= j

C26_NoMatchKeeps ==
    [][(/\ ~player'.buf.m
        /\ player'.time_setup = player.time_setup
        /\ (app.pc = "top" \/ "stdin" \notin Elems(seen'.order)))
       => (player'.offset = player.offset /\ player'.length = player.length)]_vars

\* the player has written all it had and the session holds a chunk that did
\* not match; no key was pressed, the progress timer has run and is
\* registered again, and the position is that of one second
C26_Witness ==
    /\ app.running /\ ~player.stopped /\ child.st = "run"
    /\ env.chunks_left = 0 /\ ~player.buf.m
    /\ player.offset = UNIT /\ player.length = 4 * UNIT
    /\ player.tid > 1 /\ env.keys_left = 1

\* ------------------------------------------------------------------ C27
\* C27: an advance-backward in random mode with at least two entries in
\* random_prev moves the tail of random_prev to the tail of random_next, leaves
\* random_left alone, returns the new tail of random_prev and makes it the one
\* active track of the playlist; with fewer than two entries it returns none
\* and leaves the three pools and the active flags as they were.
C27_RandomBackward ==
    [][(AdvanceStep(-1) /\ win_playlist.random) =>
          IF Len(win_playlist.random_prev) >= 2
          THEN /\ win_playlist'.random_prev =
                      SubSeq(win_playlist.random_prev, 1, Len(win_playlist.random_prev) - 1)
               /\ win_playlist'.random_next =
                      Append(win_playlist.random_next, Last(win_playlist.random_prev))
               /\ win_playlist'.random_left = win_playlist.random_left
               /\ last'.ret = Last(win_playlist'.random_prev)
               /\ ActiveInPlaylist' = {last'.ret}
          ELSE /\ last'.ret = None
               /\ Pools' = Pools
               /\ entries'.active = entries.active]_vars

\* an advance-backward has gone back from the third track of the history to
\* the second, which is the active track, and the third waits in random_next
C27_Witness ==
    /\ last.op = "change_active_entry" /\ last.dir = -1 /\ last.ret # None
    /\ win_playlist.random
    /\ Len(win_playlist.random_prev) = 2
    /\ win_playlist.random_next = <<last.old>>
    /\ ActiveEntry = Last(win_playlist.random_prev)

\* ------------------------------------------------------------------ C28
\* the pool holds what `from` held but for one occurrence of x
Without(pool, from, x) ==
    /\ x \in Elems(from)
    /\ Len(pool) = Len(from) - 1
    /\ Elems(pool) \cup {x} = Elems(from)

\* C28: an advance-forward in random mode on a playlist that is not empty
\* returns the tail of random_next, taken off it, when random_next is not
\* empty; else a member of random_left, taken out of it, when random_left is
\* not empty; else, with repeat on, a member of the playlist, random_left
\* having been refilled with the playlist and that member taken out; else
\* none. With repeat on it never returns none.
C28_RandomForward ==
    [][(AdvanceStep(1) /\ win_playlist.random /\ win_playlist.buffer # <<>>) =>
          /\ IF win_playlist.random_next # <<>>
             THEN /\ last'.ret = Last(win_playlist.random_next)
                  /\ Append(win_playlist'.random_next, last'.ret) = win_playlist.random_next
                  /\ win_playlist'.random_left = win_playlist.random_left
             ELSE IF win_playlist.random_left # <<>>
             THEN Without(win_playlist'.random_left, win_playlist.random_left, last'.ret)
             ELSE IF win_playlist.repeat
             THEN Without(win_playlist'.random_left, win_playlist.buffer, last'.ret)
             ELSE last'.ret = None /\ Pools' = Pools
          /\ win_playlist.repeat => last'.ret # None]_vars

\* with repeat on, an advance-forward has returned a track where all three
\* tracks of the playlist had been played: random_left was refilled and holds
\* the other two
C28_Witness ==
    /\ last.op = "change_active_entry" /\ last.dir = 1 /\ last.ret # None
    /\ win_playlist.random /\ win_playlist.repeat
    /\ Len(win_playlist.buffer) = 3
    /\ Len(win_playlist.random_prev) = 3
    /\ win_playlist.random_next = <<>>
    /\ Len(win_playlist.random_left) = 2
    /\ last.ret \notin Elems(win_playlist.random_left)

\* ------------------------------------------------------------------ C29
\* C29: random_prev never holds a track twice, and after an advance-forward in
\* random mode that returns a track, that track is the tail of random_prev.
C29_PrevTailOnce ==
    [][/\ \A i, j \in 1..Len(win_playlist'.random_prev) :
            win_playlist'.random_prev[i] = win_playlist'.random_prev[j] => i = j
       /\ (AdvanceStep(1) /\ win_playlist.random /\ last'.ret # None) =>
            /\ win_playlist'.random_prev # <<>>
            /\ win_playlist'.random_prev[Len(win_playlist'.random_prev)] = last'.ret]_vars

\* with repeat on, an advance-forward has returned a track after random_left
\* was refilled: random_prev holds all three tracks, the returned one at its
\* tail, and random_left still holds one
C29_Witness ==
    /\ last.op = "change_active_entry" /\ last.dir = 1 /\ last.ret # None
    /\ win_playlist.random /\ win_playlist.repeat
    /\ Len(win_playlist.buffer) = 3
    /\ Len(win_playlist.random_prev) = 3
    /\ Len(win_playlist.random_left) = 1
    /\ Last(win_playlist.random_prev) = last.ret
    /\ last.oldtail # None /\ last.oldtail # last.ret

\* ------------------------------------------------------------------ C30
\* quit was asked for: by the key Q, by a signal, or by the remote line `quit`
QuitRequested == seen.quit # "" \/ seen.line.verb = "quit"

\* C30: once quit was asked for, by key, remote line or signal, the main loop
\* has been left, no process of the session is left behind, and a session
\* that was spawned is stopped.
C30_QuitStopsAndLeaves ==
    QuitRequested =>
        /\ ~app.running
        /\ child.st \notin {"run", "susp"}
        /\ "pid" \in player.attrs => player.stopped

\* ------------------------------------------------------------------ C31
\* the ids of the play callbacks that are registered
PendingPlays == {tid \in DOMAIN timeout.dict : timeout.dict[tid].func = "play"}

\* C31: at most one play callback is registered with the scheduler, and one
\* that is registered is the one play_tid names (so that the next request
\* replaces it and a direct play is not followed by an older request).
C31_OnePendingPlay ==
    /\ Cardinality(PendingPlays) <= 1
    /\ \A tid \in PendingPlays : app.play_tid = tid

\* ------------------------------------------------------------------ C32
\* next_song or prev_song has run in this step with a navigator that returned
\* no track: a play callback for no track is registered that was not before
NoTrackRequested ==
    \E tid \in DOMAIN timeout'.dict \ DOMAIN timeout.dict :
        timeout'.dict[tid].func = "play" /\ timeout'.dict[tid].entry = None

\* C32: a next or prev request for which the navigator returns no track
\* leaves a play callback that was pending for a track registered as it was.
C32_NoTrackKeepsPending ==
    [][NoTrackRequested =>
          \A tid \in PendingPlays :
              timeout.dict[tid].entry # None =>
                  /\ tid \in DOMAIN timeout'.dict
                  /\ timeout'.dict[tid] = timeout.dict[tid]]_vars

\* ------------------------------------------------------------------ C33
\* C33: no check of the scheduler fails, whatever the callbacks it runs cancel:
\* a callback that cancels an entry which is due in the same check leaves the
\* check to go on with the entries that remain.
C33_CancelInTick == app.exc # "KeyError"

\* ------------------------------------------------------------------ C34
\* the ids of the parse_progress callbacks that are registered
PendingProgress ==
    {tid \in DOMAIN timeout.dict : timeout.dict[tid].func = "parse_progress"}

\* this step of the main loop has read output of the player and served no key
\* and no remote line
OnlyRead ==
    /\ app.pc = "select" /\ app'.pc = "top" /\ app'.running
    /\ seen'.order # <<>>
    /\ Elems(seen'.order) \subseteq {"stdout", "stderr"}

\* C34: at most one parse_progress callback is registered, the one the
\* session's tid names, and tid names nothing else; a read of output while
\* none is registered, the session playing and no seek step pending,
\* registers one; and a check of the scheduler that finds the callback due
\* while the session is stopped or a seek step is pending ends the chain.
C34_OneProgressTimer ==
    [][/\ PendingProgress' = {player'.tid} \ {None}
       /\ (OnlyRead /\ player.tid = None /\ ~player.stopped /\ player.step = 0)
             => player'.tid # None
       /\ (app.pc = "top" /\ app'.pc = "select" /\ app'.running /\ PendingPlays = {}
              /\ (player.stopped \/ player.step # 0)
              /\ \E tid \in PendingProgress : timeout.dict[tid].at <= env.now)
             => player'.tid = None]_vars

\* the session was set up again after its first start, the player has written
\* all it had, both keys are used, and one parse_progress callback is
\* registered for the session that plays
C34_Witness ==
    /\ app.running /\ ~player.stopped /\ child.st = "run"
    /\ player.time_setup > POLL_INTERVAL
    /\ env.keys_left = 0 /\ env.chunks_left = 0
    /\ player.tid # None /\ PendingProgress = {player.tid}

\* ------------------------------------------------------------------ C35
\* the session the program starts with: no process was spawned for it
InitialSession ==
    /\ "pid" \notin player.attrs /\ player.time_setup = NoTime
    /\ player.entry = None /\ ~player.stopped /\ child.st = "none"

\* C35: the session the program starts with is left alone until the first
\* select() has returned; the iteration after it polls the session and finds
\* it ended, and then, stop-after-track off and the player installed, the
\* first track of the playlist is active and playing in a new process, while
\* with stop-after-track on the session is stopped and nothing is spawned.
C35_StartupPlays ==
    [][(InitialSession /\ app.pc = "top" /\ app'.pc = "select")
         => IF ~app.kludge
            THEN /\ player' = player /\ child' = child
                 /\ seen'.poll = seen.poll
            ELSE /\ seen'.poll.seq # seen.poll.seq
                 /\ seen'.poll.found = "gone" /\ seen'.poll.ret
                 /\ ~seen'.poll.respawned
                 /\ IF win_playlist.stop
                    THEN /\ player'.stopped /\ child'.st = "none"
                         /\ player'.entry = None
                    ELSE /\ ~player'.stopped /\ child'.st = "run"
                         /\ player'.entry = win_playlist.buffer[1]
                         /\ entries'.active = {win_playlist.buffer[1]}
                         /\ player'.time_setup = env.now]_vars

\* the first track plays and no key was pressed
C35_Witness ==
    /\ app.running /\ ~player.stopped /\ child.st = "run" /\ child.forks = 1
    /\ player.entry = win_playlist.buffer[1]
    /\ env.keys_left = 1 /\ env.exits_left = PollExits
    /\ seen.poll.ret

\* ------------------------------------------------------------------ C36
\* this step of the main loop has served a seek request that came while the
\* session was stopped or paused
SoughtAtRest ==
    /\ app.pc = "select" /\ app'.pc = "top" /\ app'.running
    /\ seen'.burst # seen.burst
    /\ seen'.sought \in {"stopped", "paused"}

\* C36: a seek request served while the session is stopped or paused leaves
\* one play callback registered for the track of the session and the offset
\* the seek left it at, due when the debounce window ends; no play callback stays registered past
\* the check that finds it due; and the check that runs a play callback for a
\* track leaves the session playing in a new process, neither stopped nor
\* paused.
C36_SeekAtRestRespawns ==
    [][/\ SoughtAtRest
            => /\ app'.play_tid \in DOMAIN timeout'.dict
               /\ timeout'.dict[app'.play_tid] =
                      [func |-> "play", entry |-> player.entry,
                       offset |-> seen'.burst.offset, at |-> env'.now + DEBOUNCE]
               /\ player'.entry = player.entry
       /\ (app.pc = "top" /\ app'.pc = "select" /\ app'.running)
            => /\ \A tid \in DOMAIN timeout'.dict :
                      timeout'.dict[tid].func = "play" => timeout'.dict[tid].at > env.now
               /\ (\E tid \in PendingPlays :
                       timeout.dict[tid].at <= env.now /\ timeout.dict[tid].entry # None)
                     => /\ ~player'.stopped /\ ~player'.paused
                        /\ child'.st = "run" /\ child'.forks > 0]_vars

\* a seek request came while the session was stopped, no other came after it,
\* its play callback has run, and the session plays
C36_Witness ==
    /\ app.running /\ seen.sought = "stopped" /\ seen.burst.n = 1
    /\ seen.fired # <<>>
    /\ ~player.stopped /\ ~player.paused /\ child.st = "run"
    /\ PendingPlays = {}

\* ------------------------------------------------------------------ C37
\* C37: the session is never paused and stopped at once.
C37_NeverPausedAndStopped == ~(player.paused /\ player.stopped)

\* ------------------------------------------------------------------ C38
\* this step of the main loop has served a key that is no seek request, and
\* has read nothing from the player
ToggleServed ==
    /\ app.pc = "select" /\ app'.pc = "top" /\ app'.running
    /\ env'.keys_left < env.keys_left /\ seen'.burst = seen.burst
    /\ env'.chunks_left = env.chunks_left

\* C38: the stop/play key served while the session is stopped leaves the
\* same track playing in a new process, set up at the offset the session had;
\* and an iteration of the main loop that finds the player ended, with no
\* callback due, leaves the session stopped with its track and its offset.
C38_ToggleKeepsOffset ==
    [][/\ (ToggleServed /\ player.stopped /\ player.entry # None)
            => /\ ~player'.stopped /\ child'.st = "run" /\ child'.forks > 0
               /\ player'.entry = player.entry
               /\ player'.offset = player.offset
               /\ player'.time_setup = env'.now
       /\ (/\ app.pc = "top" /\ app'.pc = "select" /\ app'.running
           /\ ~player.stopped /\ player'.stopped
           /\ \A tid \in DOMAIN timeout.dict : timeout.dict[tid].at > env.now)
            => /\ player'.entry = player.entry
               /\ player'.offset = player.offset]_vars

\* the player ended by itself, the one key pressed since was the stop/play
\* key, and the session plays again from the position parsed last, nothing
\* read from the new process yet
C38_Witness ==
    /\ app.running /\ ~player.stopped /\ child.st = "run"
    /\ env.keys_left = ToggleKeys - 1 /\ seen.burst.n = 0
    /\ env.exits_left = 0
    /\ player.tid = None /\ player.offset > 0
    /\ player.time_setup = env.now

\* ------------------------------------------------------------------ C39
\* C39: handling the remote line "play" or "stop" leaves the main loop
\* running; it leaves a session that played stopped, a session that was
\* stopped playing its track in a new process, and a session that never had a
\* track as it was.
C39_PlayStopToggle ==
    [][(env'.lines_left < env.lines_left /\ seen'.line.verb \in {"play", "stop"})
          => /\ app'.running
             /\ IF seen'.before[1] = None THEN Playback' = seen'.before
                ELSE IF seen'.before[4]
                THEN /\ ~player'.stopped /\ child'.st = "run" /\ child'.forks > 0
                     /\ player'.entry = seen'.before[1]
                ELSE player'.stopped /\ child'.st # "run"]_vars

\* ------------------------------------------------------------------ C40
\* C40: in random mode, when random_prev is not empty and a track of the
\* playlist is active, that track is the last of random_prev.
C40_ActiveIsTail ==
    (win_playlist.random /\ win_playlist.random_prev # <<>> /\ ActiveEntry # None)
        => ActiveEntry = Last(win_playlist.random_prev)

====
